---- MODULE Spec2Model ----
(***************************************************************************)
(* A model of the OLSR node daemon: neighbor sensing (HELLO), MPR          *)
(* selection, TC processing with duplicate suppression, the topology       *)
(* database and the control queue.  Tables are sequences, as the arrays    *)
(* with a count are in the C code; every loop over a table is a left to    *)
(* right fold, so that first-match and tie-break behaviour is preserved.   *)
(***************************************************************************)
EXTENDS Integers, Sequences, FiniteSets, TLC

(***************************************************************************)
(* Program constants (src/unnamed/part_010 is include/olsr.h).             *)
(***************************************************************************)
MSG_HELLO == 1
MSG_TC == 2

WILL_NEVER == 0
WILL_LOW == 1
WILL_DEFAULT == 3
WILL_HIGH == 6
WILL_ALWAYS == 7

UNSPEC_LINK == 0
ASYM_LINK == 1
SYM_LINK == 2
LOST_LINK == 3
MPR_NEIGH == 4

HELLO_INTERVAL == 2
HELLO_TIMEOUT == 6
SLOT_RESERVATION_TIMEOUT == 30
\* tc.h is not part of the sources; the value is the one of the specification
TC_VALIDITY_TIME == 15
MAX_NODES == 50
MAX_ROUTING_ENTRIES == 100
INFINITE_COST == 2147483647
\* width of uint16_t (message_seq_num, ansn)
Uint16 == 65536

(***************************************************************************)
(* Bounds of the model.  The capacities are the program's table sizes      *)
(* scaled down (MAX_NEIGHBORS = 40, MAX_TWO_HOP_NEIGHBORS = 100,           *)
(* MAX_DUPLICATE_ENTRIES, MAX_TOPOLOGY_LINKS), so that a full table is     *)
(* reachable.                                                              *)
(***************************************************************************)
MaxNode == 4
MaxNeighbors == 3
MaxTwoHop == 4
MaxDup == 2
MaxTopo == 2
MaxTicks == 1
MaxAnsn == 2
MaxSeq == 1
MaxQueue == 2
MaxLegacy == 2
MaxTcSeq == 3

Nodes == 1..MaxNode
\* this node's id (node_id); every other id is a possible peer
node_id == CHOOSE n \in Nodes : \A m \in Nodes : n <= m
Others == Nodes \ {node_id}
\* one more peer than the Others: the node that finds the neighbor table full
ExtraNode == MaxNode + 1

VARIABLES
    now,               \* time(NULL)
    neighbor_table,    \* neighbor_table[0..neighbor_count-1]
    two_hop_table,     \* two_hop_table[0..two_hop_count-1]
    mpr_set,           \* mpr_set[0..mpr_count-1]
    neighbor_slots,    \* neighbor_slots[0..slot_table_size-1]
    duplicate_table,   \* duplicate_table[0..duplicate_count-1]
    global_topology,   \* global_topology[0..global_topology_count-1]
    tc_topology,       \* tc_topology[0..tc_topology_size-1] (legacy links)
    routing_table,     \* routing_table[0..routing_table_size-1]
    global_ctrl_queue, \* the queue process_tc_message forwards to
    ctrl_queue,        \* the queue of the protocol loop
    hello_msg_static,  \* the static buffer generate_hello_message returns
    message_seq_num,   \* the message sequence counter
    ansn_counter,      \* ansn_counter of generate_tc_message
    tc_msg,            \* the static buffer generate_tc_message returns
    loop_started,      \* init_olsr has entered its while (1) loop
    last_hello_time,   \* init_olsr: time of the last periodic HELLO
    last_tc_time,      \* init_olsr: time of the last periodic TC
    last_timeout_check,   \* init_olsr: time of the last timeout scan
    last_global_cleanup,  \* init_olsr: time of the last maintenance
    topology_changed,  \* init_olsr: the topology_changed flag
    control_queue,     \* a struct control_queue: head, tail, count and its nodes
    rrc_to_olsr_queue, \* the requests the RRC layer has enqueued
    olsr_to_rrc_queue, \* the responses enqueued for the RRC layer
    last,              \* history: the operation just performed and its inputs
    hello_listed,      \* history: did the last HELLO of a peer list this node
    ansn_seen,         \* history: largest ansn applied to a stored link
    ansn_max_from      \* history: largest ansn of the TCs processed, per originator

vars == <<now, neighbor_table, two_hop_table, mpr_set, neighbor_slots,
          duplicate_table, global_topology, tc_topology, routing_table,
          global_ctrl_queue, ctrl_queue, hello_msg_static, message_seq_num,
          ansn_counter, tc_msg, loop_started, last_hello_time, last_tc_time,
          last_timeout_check, last_global_cleanup, topology_changed,
          control_queue, rrc_to_olsr_queue, olsr_to_rrc_queue, last,
          hello_listed, ansn_seen, ansn_max_from>>

helloVars == <<neighbor_table, two_hop_table, mpr_set, neighbor_slots>>
tcVars == <<duplicate_table, global_topology, tc_topology, routing_table,
            global_ctrl_queue>>
sendVars == <<ctrl_queue, hello_msg_static, message_seq_num, ansn_counter,
              tc_msg>>
timerVars == <<loop_started, last_hello_time, last_tc_time, last_timeout_check,
               last_global_cleanup, topology_changed>>
rrcVars == <<rrc_to_olsr_queue, olsr_to_rrc_queue>>
loopVars == <<timerVars, control_queue, rrcVars>>

(***************************************************************************)
(* Helpers over sequences.                                                 *)
(***************************************************************************)
Max2(a, b) == IF a >= b THEN a ELSE b

\* index of the first TRUE in a sequence of booleans, 0 when there is none
FirstIndex(hit) ==
    IF \E i \in 1..Len(hit) : hit[i]
    THEN CHOOSE i \in 1..Len(hit) : hit[i] /\ \A j \in 1..(i-1) : ~hit[j]
    ELSE 0

(***************************************************************************)
(* Neighbor table: update_neighbor / add_neighbor (src/src/neighbor.c).    *)
(***************************************************************************)
FindNeighbor(nt, id) ==
    FirstIndex([x \in 1..Len(nt) |-> nt[x].neighbor_id = id])

\* a variant that overwrites the last entry when the table is full
add_neighbor_evict(nt, id, link_code, willingness, t) ==
    LET e == [neighbor_id |-> id, link_status |-> link_code,
              willingness |-> willingness, last_seen |-> t,
              last_hello_time |-> t, is_mpr |-> FALSE,
              is_mpr_selector |-> FALSE]
    IN IF Len(nt) >= MaxNeighbors THEN [nt EXCEPT ![Len(nt)] = e]
       ELSE Append(nt, e)

add_neighbor(nt, id, link_code, willingness, t) ==
    IF Len(nt) >= MaxNeighbors THEN nt
    ELSE Append(nt, [neighbor_id |-> id, link_status |-> link_code,
                     willingness |-> willingness, last_seen |-> t,
                     last_hello_time |-> t, is_mpr |-> FALSE,
                     is_mpr_selector |-> FALSE])

update_neighbor(nt, id, link_type, willingness, t) ==
    LET i == FindNeighbor(nt, id) IN
    IF i # 0
    THEN [nt EXCEPT ![i].link_status = link_type,
                    ![i].willingness = willingness,
                    ![i].last_seen = t,
                    ![i].last_hello_time = t]
    ELSE add_neighbor(nt, id, link_type, willingness, t)

(***************************************************************************)
(* Two-hop table (mpr.c, src/unnamed/part_003).                            *)
(***************************************************************************)
add_two_hop_neighbor(th, two_hop_addr, one_hop_addr, t) ==
    LET i == FirstIndex([x \in 1..Len(th) |-> th[x].neighbor_id = two_hop_addr
                                       /\ th[x].one_hop_addr = one_hop_addr]) IN
    IF i # 0 THEN [th EXCEPT ![i].last_seen = t]
    ELSE IF Len(th) >= MaxTwoHop THEN th
    ELSE Append(th, [neighbor_id |-> two_hop_addr,
                     one_hop_addr |-> one_hop_addr, last_seen |-> t])

\* declared in include/mpr.h; its definition is not part of the sources
remove_two_hop_via_neighbor(th, one_hop_addr) ==
    SelectSeq(th, LAMBDA e : e.one_hop_addr # one_hop_addr)

(***************************************************************************)
(* MPR selection: calculate_mpr_set (mpr.c).  covered is the set of        *)
(* indices i with covered_set[i] = 1: coverage is tracked per table        *)
(* entry, as in the code, not per two-hop id.                              *)
(***************************************************************************)
count_reachable_two_hop(th, one_hop_addr, covered) ==
    Cardinality({i \in 1..Len(th) :
                    th[i].one_hop_addr = one_hop_addr /\ i \notin covered})

is_only_path(th, one_hop_addr) ==
    \E i \in 1..Len(th) :
        /\ Cardinality({j \in 1..Len(th) :
                           th[j].neighbor_id = th[i].neighbor_id}) = 1
        /\ th[i].one_hop_addr = one_hop_addr

mark_covered_two_hop(th, one_hop_addr, covered) ==
    covered \cup {i \in 1..Len(th) : th[i].one_hop_addr = one_hop_addr}

\* the selection state carried through calculate_mpr_set
MprState(nt, mpr, covered) == [nt |-> nt, mpr |-> mpr, covered |-> covered]

\* a variant that stores the selected id twice
SelectMprTwice(st, th, i) ==
    MprState([st.nt EXCEPT ![i].is_mpr = TRUE],
             Append(Append(st.mpr, st.nt[i].neighbor_id), st.nt[i].neighbor_id),
             mark_covered_two_hop(th, st.nt[i].neighbor_id, st.covered))

SelectMpr(st, th, i) ==
    MprState([st.nt EXCEPT ![i].is_mpr = TRUE],
             Append(st.mpr, st.nt[i].neighbor_id),
             mark_covered_two_hop(th, st.nt[i].neighbor_id, st.covered))

\* Step 1: every symmetric neighbor with WILL_ALWAYS
RECURSIVE MprStepAlways(_, _, _)
MprStepAlways(st, th, i) ==
    IF i > Len(st.nt) THEN st
    ELSE IF st.nt[i].link_status = SYM_LINK /\ st.nt[i].willingness = WILL_ALWAYS
         THEN MprStepAlways(SelectMpr(st, th, i), th, i + 1)
         ELSE MprStepAlways(st, th, i + 1)

\* a variant that selects the neighbor at index i whatever its link status
\* and willingness
MprStepOnlyPathUnchecked(st, th, i) ==
    IF i > Len(st.nt) THEN st ELSE SelectMpr(st, th, i)

\* Step 2: neighbors that are the only path to some two-hop neighbor
RECURSIVE MprStepOnlyPath(_, _, _)
MprStepOnlyPath(st, th, i) ==
    IF i > Len(st.nt) THEN st
    ELSE IF /\ st.nt[i].link_status = SYM_LINK
            /\ ~st.nt[i].is_mpr
            /\ st.nt[i].willingness # WILL_NEVER
            /\ is_only_path(th, st.nt[i].neighbor_id)
         THEN MprStepOnlyPath(SelectMpr(st, th, i), th, i + 1)
         ELSE MprStepOnlyPath(st, th, i + 1)

\* The tie-break of the greedy scan (mpr.c lines 561-563)
GreedyBetter(new_coverage, willingness, max_new_coverage, best_willingness) ==
    \/ new_coverage > max_new_coverage
    \/ new_coverage = max_new_coverage /\ willingness > best_willingness

\* The scan for best_neighbor_idx; best is [idx, cov, will], idx 0 for -1
RECURSIVE MprBestNeighbor(_, _, _, _)
MprBestNeighbor(st, th, i, best) ==
    IF i > Len(st.nt) THEN best
    ELSE IF /\ st.nt[i].link_status = SYM_LINK
            /\ ~st.nt[i].is_mpr
            /\ st.nt[i].willingness # WILL_NEVER
         THEN LET c == count_reachable_two_hop(th, st.nt[i].neighbor_id,
                                               st.covered) IN
              IF GreedyBetter(c, st.nt[i].willingness, best.cov, best.will)
              THEN MprBestNeighbor(st, th, i + 1,
                       [idx |-> i, cov |-> c, will |-> st.nt[i].willingness])
              ELSE MprBestNeighbor(st, th, i + 1, best)
         ELSE MprBestNeighbor(st, th, i + 1, best)

\* a variant without the greedy step
MprStepGreedySkipped(st, th) == st

\* Step 3: the while (!all_covered) loop
RECURSIVE MprStepGreedy(_, _)
MprStepGreedy(st, th) ==
    IF \A i \in 1..Len(th) : i \in st.covered THEN st
    ELSE LET best == MprBestNeighbor(st, th, 1,
                         [idx |-> 0, cov |-> 0, will |-> -1]) IN
         IF best.idx # 0 THEN MprStepGreedy(SelectMpr(st, th, best.idx), th)
         ELSE st

\* calculate_mpr_set: the new neighbor table (is_mpr flags) and mpr_set
calculate_mpr_set(nt, th) ==
    LET cleared == [i \in 1..Len(nt) |-> [nt[i] EXCEPT !.is_mpr = FALSE]]
        st0 == MprState(cleared, <<>>, {}) IN
    IF Len(th) = 0 THEN st0
    ELSE MprStepGreedy(
             MprStepOnlyPath(MprStepAlways(st0, th, 1), th, 1), th)


(***************************************************************************)
(* TDMA slot reservations (rrc_olsr_interface.h, the hello.c part).        *)
(***************************************************************************)
MaxSlots == MaxNeighbors + MaxTwoHop

update_neighbor_slot_reservation(slots, neighbor_id, slot_number, hop_distance, t) ==
    IF neighbor_id = 0 \/ neighbor_id = node_id THEN slots
    ELSE LET i == FirstIndex([x \in 1..Len(slots) |->
                                 slots[x].node_id = neighbor_id]) IN
         IF i # 0
         THEN [slots EXCEPT ![i].reserved_slot = slot_number,
                            ![i].last_updated = t,
                            ![i].hop_distance = hop_distance]
         ELSE IF Len(slots) < MaxSlots /\ slot_number >= 0
         THEN Append(slots, [node_id |-> neighbor_id,
                             reserved_slot |-> slot_number,
                             last_updated |-> t,
                             hop_distance |-> hop_distance])
         ELSE slots

get_neighbor_slot_reservation(slots, id) ==
    LET i == FirstIndex([x \in 1..Len(slots) |-> slots[x].node_id = id]) IN
    IF i # 0 THEN slots[i].reserved_slot ELSE -1

cleanup_expired_reservations(slots, max_age, t) ==
    SelectSeq(slots, LAMBDA e : (t - e.last_updated) <= max_age)

(***************************************************************************)
(* HELLO generation: generate_hello_message.                               *)
(***************************************************************************)
HelloNeighbors(nt) ==
    [i \in 1..Len(nt) |-> [neighbor_id |-> nt[i].neighbor_id,
                           link_code |-> nt[i].link_status]]

HelloTwoHop(th, slots) ==
    IF Len(th) > 0 /\ Len(th) <= MaxTwoHop
    THEN [i \in 1..Len(th) |->
             [two_hop_id |-> th[i].neighbor_id,
              via_neighbor_id |-> th[i].one_hop_addr,
              reserved_slot |->
                  get_neighbor_slot_reservation(slots, th[i].neighbor_id)]]
    ELSE <<>>

\* node_willingness = WILL_DEFAULT and my_reserved_slot = -1 are never changed
\* by the protocol engine
generate_hello_message(nt, th, slots) ==
    [hello_interval |-> HELLO_INTERVAL,
     willingness |-> WILL_DEFAULT,
     reserved_slot |-> -1,
     neighbors |-> HelloNeighbors(nt),
     two_hop_neighbors |-> HelloTwoHop(th, slots)]

(***************************************************************************)
(* HELLO reception: process_hello_message and update_mpr_selector_status.  *)
(***************************************************************************)
\* "we are mentioned in the sender's neighbor list"
WeAreMentioned(hello) ==
    \E i \in 1..Len(hello.neighbors) : hello.neighbors[i].neighbor_id = node_id

\* a variant that takes every sender for symmetric
HelloLinkTypeAlwaysSym(hello) == SYM_LINK

\* the link type process_hello_message hands to update_neighbor
HelloLinkType(hello) == IF WeAreMentioned(hello) THEN SYM_LINK ELSE ASYM_LINK

\* the TDMA updates at the head of process_hello_message
RECURSIVE HelloTwoHopSlots(_, _, _, _)
HelloTwoHopSlots(slots, hello, i, t) ==
    IF i > Len(hello.two_hop_neighbors) THEN slots
    ELSE LET e == hello.two_hop_neighbors[i] IN
         HelloTwoHopSlots(
             IF e.two_hop_id # node_id
             THEN update_neighbor_slot_reservation(slots, e.two_hop_id,
                                                   e.reserved_slot, 2, t)
             ELSE slots,
             hello, i + 1, t)

\* the two-hop derivation loop of process_hello_message
RECURSIVE HelloDeriveTwoHop(_, _, _, _, _, _)
HelloDeriveTwoHop(th, nt, hello, sender_addr, i, t) ==
    IF i > Len(hello.neighbors) THEN th
    ELSE LET e == hello.neighbors[i]
             is_one_hop == FindNeighbor(nt, e.neighbor_id) # 0 IN
         HelloDeriveTwoHop(
             IF /\ e.neighbor_id # node_id
                /\ ~is_one_hop
                /\ e.link_code = SYM_LINK
             THEN add_two_hop_neighbor(th, e.neighbor_id, sender_addr, t)
             ELSE th,
             nt, hello, sender_addr, i + 1, t)

\* a variant that sets the flag and never clears it
update_mpr_selector_status_sticky(nt, hello, sender_id) ==
    LET sender_idx == FindNeighbor(nt, sender_id) IN
    IF sender_idx = 0 THEN nt
    ELSE [nt EXCEPT ![sender_idx].is_mpr_selector =
             @ \/ \E i \in 1..Len(hello.neighbors) :
                      /\ hello.neighbors[i].neighbor_id = node_id
                      /\ hello.neighbors[i].link_code = MPR_NEIGH]

update_mpr_selector_status(nt, hello, sender_id) ==
    LET sender_idx == FindNeighbor(nt, sender_id)
        selected_as_mpr ==
            \E i \in 1..Len(hello.neighbors) :
                /\ hello.neighbors[i].neighbor_id = node_id
                /\ hello.neighbors[i].link_code = MPR_NEIGH IN
    IF sender_idx = 0 THEN nt
    ELSE [nt EXCEPT ![sender_idx].is_mpr_selector = selected_as_mpr]

\* process_hello_message: the tables after the HELLO was processed at time t
process_hello_message(nt, th, slots, hello, sender_addr, t) ==
    LET slots1 == update_neighbor_slot_reservation(slots, sender_addr,
                                                   hello.reserved_slot, 1, t)
        slots2 == HelloTwoHopSlots(slots1, hello, 1, t)
        nt1 == update_neighbor(nt, sender_addr, HelloLinkType(hello),
                               hello.willingness, t)
        j == FindNeighbor(nt1, sender_addr)
        nt2 == IF j # 0 THEN [nt1 EXCEPT ![j].last_hello_time = t] ELSE nt1
        sender_is_symmetric ==
            \E i \in 1..Len(nt2) : /\ nt2[i].neighbor_id = sender_addr
                                   /\ nt2[i].link_status = SYM_LINK
        th1 == IF sender_is_symmetric
               THEN HelloDeriveTwoHop(th, nt2, hello, sender_addr, 1, t)
               ELSE th
        m == calculate_mpr_set(nt2, th1) IN
    [nt |-> update_mpr_selector_status(m.nt, hello, sender_addr),
     th |-> th1,
     mpr |-> m.mpr,
     slots |-> cleanup_expired_reservations(slots2, SLOT_RESERVATION_TIMEOUT, t)]

(***************************************************************************)
(* Neighbor timeouts: check_neighbor_timeouts and handle_link_failure.     *)
(***************************************************************************)
\* a scan that lets a neighbor stay one second longer
TimedOutLate(e, t) == (t - e.last_hello_time) > HELLO_TIMEOUT + 1

TimedOut(e, t) == (t - e.last_hello_time) > HELLO_TIMEOUT

\* handle_link_failure for the timed-out neighbors, in table order
RECURSIVE HandleFailures(_, _, _, _, _)
HandleFailures(nt, th, slots, i, t) ==
    IF i > Len(nt) THEN [th |-> th, slots |-> slots]
    ELSE IF TimedOut(nt[i], t)
         THEN HandleFailures(nt,
                  remove_two_hop_via_neighbor(th, nt[i].neighbor_id),
                  update_neighbor_slot_reservation(slots, nt[i].neighbor_id,
                                                   -1, 1, t),
                  i + 1, t)
         ELSE HandleFailures(nt, th, slots, i + 1, t)

check_neighbor_timeouts(nt, th, mpr, slots, t) ==
    LET kept == SelectSeq(nt, LAMBDA e : ~TimedOut(e, t))
        failed_count == Len(nt) - Len(kept)
        h == HandleFailures(nt, th, slots, 1, t)
        m == calculate_mpr_set(kept, h.th) IN
    [nt |-> IF failed_count > 0 THEN m.nt ELSE kept,
     th |-> h.th,
     mpr |-> IF failed_count > 0 THEN m.mpr ELSE mpr,
     slots |-> h.slots,
     failed_count |-> failed_count]


(***************************************************************************)
(* Duplicate set and topology database (src/src/routing.c).                *)
(***************************************************************************)
is_duplicate_message(dt, originator, seq_number) ==
    \E i \in 1..Len(dt) : /\ dt[i].originator = originator
                          /\ dt[i].seq_number = seq_number

add_duplicate_entry(dt, originator, seq_number, t) ==
    IF Len(dt) >= MaxDup THEN dt
    ELSE Append(dt, [originator |-> originator, seq_number |-> seq_number,
                     timestamp |-> t])

FindLink(topo, from_node, to_node) ==
    FirstIndex([x \in 1..Len(topo) |-> /\ topo[x].from_node = from_node
                                      /\ topo[x].to_node = to_node])

\* a variant that lets any ansn overwrite the stored one
AnsnAcceptedAlways(ansn, stored) == TRUE

\* the "ansn >= stored ansn" comparison that guards an update
AnsnAccepted(ansn, stored) == ansn >= stored

\* a variant that stores whatever ansn arrives last
add_topology_link_latest(topo, from_node, to_node, ansn, validity_time) ==
    LET i == FindLink(topo, from_node, to_node) IN
    IF i # 0
    THEN [topo EXCEPT ![i].ansn = ansn, ![i].validity_time = validity_time]
    ELSE IF Len(topo) < MaxTopo
    THEN Append(topo, [from_node |-> from_node, to_node |-> to_node,
                       ansn |-> ansn, validity_time |-> validity_time])
    ELSE topo

add_topology_link(topo, from_node, to_node, ansn, validity_time) ==
    LET i == FindLink(topo, from_node, to_node) IN
    IF i # 0
    THEN IF AnsnAccepted(ansn, topo[i].ansn)
         THEN [topo EXCEPT ![i].ansn = ansn, ![i].validity_time = validity_time]
         ELSE topo
    ELSE IF Len(topo) < MaxTopo
    THEN Append(topo, [from_node |-> from_node, to_node |-> to_node,
                       ansn |-> ansn, validity_time |-> validity_time])
    ELSE topo

\* the return value of add_topology_link: 0, or -1 when the table is full
add_topology_link_rc(topo, from_node, to_node) ==
    IF FindLink(topo, from_node, to_node) # 0 \/ Len(topo) < MaxTopo
    THEN 0 ELSE -1

get_all_topology_links(topo, t) ==
    LET valid == SelectSeq(topo, LAMBDA e : e.validity_time > t) IN
    [i \in 1..Len(valid) |-> [from_id |-> valid[i].from_node,
                              to_id |-> valid[i].to_node,
                              cost |-> 1,
                              validity |-> valid[i].validity_time]]

cleanup_topology_links(topo, t) ==
    SelectSeq(topo, LAMBDA e : e.validity_time > t)

\* a variant that forwards for every symmetric neighbor
should_forward_message_any_sym(nt, sender_addr) ==
    \E i \in 1..Len(nt) : /\ nt[i].neighbor_id = sender_addr
                          /\ nt[i].link_status = SYM_LINK

should_forward_message(nt, sender_addr) ==
    \E i \in 1..Len(nt) : /\ nt[i].neighbor_id = sender_addr
                          /\ nt[i].link_status = SYM_LINK
                          /\ nt[i].is_mpr_selector

(***************************************************************************)
(* Control queue: push_to_control_queue (control_queue.c,                  *)
(* src/unnamed/part_006).  message_ptr is the pointer pushed: a tag for    *)
(* the static HELLO buffer, or the received TC body of the caller.         *)
(***************************************************************************)
push_to_control_queue(queue, msg_type, message_ptr, t) ==
    Append(queue, [msg_type |-> msg_type, timestamp |-> t,
                   next_retry_time |-> 0, retry_count |-> 0,
                   destination_id |-> 0, message_ptr |-> message_ptr])

\* forward_tc_message: the queue after the call (ttl <= 1 is refused)
forward_tc_message(queue, msg, t) ==
    IF msg.ttl <= 1 THEN queue
    ELSE push_to_control_queue(queue, MSG_TC, [ref |-> "rx_tc", body |-> msg.body], t)


(***************************************************************************)
(* Routing (src/src/routing.c): legacy TC links, topology graph, Dijkstra. *)
(***************************************************************************)
update_tc_topology(legacy, from_id, to_id, validity) ==
    IF Len(legacy) >= MaxLegacy THEN legacy
    ELSE Append(legacy, [from_id |-> from_id, to_id |-> to_id, cost |-> 1,
                         validity |-> validity])

cleanup_tc_topology(legacy, t) ==
    SelectSeq(legacy, LAMBDA e : ~(e.validity <= t))

HasLink(links, from_id, to_id) ==
    \E j \in 1..Len(links) : links[j].from_id = from_id /\ links[j].to_id = to_id

DirectLinks(nt) ==
    LET sym == SelectSeq(nt, LAMBDA e : e.link_status = SYM_LINK) IN
    [i \in 1..Len(sym) |-> [from_id |-> node_id, to_id |-> sym[i].neighbor_id,
                            cost |-> 1, validity |-> sym[i].last_seen + 10]]

\* append the links of src[i..] that are not yet in acc (max_links guard)
RECURSIVE AppendNewLinks(_, _, _)
AppendNewLinks(acc, src, i) ==
    IF i > Len(src) \/ Len(acc) >= MAX_NODES * MAX_NODES THEN acc
    ELSE IF HasLink(acc, src[i].from_id, src[i].to_id)
    THEN AppendNewLinks(acc, src, i + 1)
    ELSE AppendNewLinks(Append(acc, src[i]), src, i + 1)

\* build_topology_graph: the link list, and the two tables it cleans up
build_topology_graph(nt, topo, legacy, t) ==
    LET topo1   == cleanup_topology_links(topo, t)
        global  == get_all_topology_links(topo1, t)
        legacy1 == cleanup_tc_topology(legacy, t)
        valid   == SelectSeq(legacy1, LAMBDA e : e.validity > t)
        step3   == AppendNewLinks(DirectLinks(nt), global, 1)
    IN [links |-> AppendNewLinks(step3, valid, 1),
        topo |-> topo1, legacy |-> legacy1]

find_node_index(nodes, target_id) ==
    FirstIndex([x \in 1..Len(nodes) |-> nodes[x] = target_id])

RECURSIVE DijkstraNodes(_, _, _)
DijkstraNodes(nodes, topology, i) ==
    IF i > Len(topology) \/ Len(nodes) >= MAX_NODES THEN nodes
    ELSE LET n1 == IF find_node_index(nodes, topology[i].from_id) = 0
                   THEN Append(nodes, topology[i].from_id) ELSE nodes
             n2 == IF find_node_index(n1, topology[i].to_id) = 0
                   THEN Append(n1, topology[i].to_id) ELSE n1
         IN DijkstraNodes(n2, topology, i + 1)

\* find_min_distance: scan with "<=", so the last minimal index wins; 0 if none
RECURSIVE find_min_distance(_, _, _, _, _)
find_min_distance(dist, sptSet, v, min, min_index) ==
    IF v > Len(dist) THEN min_index
    ELSE IF ~sptSet[v] /\ dist[v] <= min
    THEN find_min_distance(dist, sptSet, v + 1, dist[v], v)
    ELSE find_min_distance(dist, sptSet, v + 1, min, min_index)

\* relaxation of the links leaving nodes[u]; d = [dist, sptSet, parent]
RECURSIVE DijkstraRelax(_, _, _, _, _)
DijkstraRelax(d, nodes, topology, u, i) ==
    IF i > Len(topology) THEN d
    ELSE LET v == find_node_index(nodes, topology[i].to_id)
             new_dist == d.dist[u] + topology[i].cost
         IN IF /\ topology[i].from_id = nodes[u]
               /\ v # 0 /\ ~d.sptSet[v] /\ d.dist[u] # INFINITE_COST
               /\ new_dist < d.dist[v]
            THEN DijkstraRelax([d EXCEPT !.dist[v] = new_dist,
                                         !.parent[v] = nodes[u]],
                               nodes, topology, u, i + 1)
            ELSE DijkstraRelax(d, nodes, topology, u, i + 1)

RECURSIVE DijkstraLoop(_, _, _, _)
DijkstraLoop(d, nodes, topology, count) ==
    IF count >= Len(nodes) - 1 THEN d
    ELSE LET u == find_min_distance(d.dist, d.sptSet, 1, INFINITE_COST, 0) IN
         IF u = 0 THEN d
         ELSE DijkstraLoop(DijkstraRelax([d EXCEPT !.sptSet[u] = TRUE],
                                         nodes, topology, u, 1),
                           nodes, topology, count + 1)

\* a route that names the destination itself as its first hop
TraceNextHopDirect(d, nodes, source, current) == current

\* the parent walk that finds the first hop towards nodes[i]
RECURSIVE TraceNextHop(_, _, _, _)
TraceNextHop(d, nodes, source, current) ==
    LET p == d.parent[find_node_index(nodes, current)] IN
    IF p # source /\ p # 0 THEN TraceNextHop(d, nodes, source, p) ELSE current

add_routing_entry(rt, dest_id, next_hop_id, metric, hops, t) ==
    LET i == FirstIndex([x \in 1..Len(rt) |-> rt[x].dest_id = dest_id])
        entry == [dest_id |-> dest_id, next_hop_id |-> next_hop_id,
                  metric |-> metric, hops |-> hops, timestamp |-> t]
    IN IF i # 0 THEN [rt EXCEPT ![i] = entry]
       ELSE IF Len(rt) < MAX_ROUTING_ENTRIES THEN Append(rt, entry)
       ELSE rt

RECURSIVE DijkstraRoutes(_, _, _, _, _, _)
DijkstraRoutes(rt, d, nodes, source, i, t) ==
    IF i > Len(nodes) THEN rt
    ELSE IF nodes[i] # source /\ d.dist[i] # INFINITE_COST
    THEN DijkstraRoutes(add_routing_entry(rt, nodes[i],
                                          TraceNextHop(d, nodes, source, nodes[i]),
                                          d.dist[i], d.dist[i], t),
                        d, nodes, source, i + 1, t)
    ELSE DijkstraRoutes(rt, d, nodes, source, i + 1, t)

\* dijkstra_shortest_path: the routing table it leaves
dijkstra_shortest_path(source, topology, t) ==
    LET nodes == DijkstraNodes(<<source>>, topology, 1)
        src_index == find_node_index(nodes, source)
        d0 == [dist   |-> [i \in 1..Len(nodes) |->
                              IF i = src_index THEN 0 ELSE INFINITE_COST],
               sptSet |-> [i \in 1..Len(nodes) |-> FALSE],
               parent |-> [i \in 1..Len(nodes) |-> 0]]
        d == DijkstraLoop(d0, nodes, topology, 0)
    IN DijkstraRoutes(<<>>, d, nodes, source, 1, t)

\* calculate_routing_table / update_routing_table: routing table and the
\* two topology tables after the call
update_routing_table(nt, topo, legacy, t) ==
    LET g == build_topology_graph(nt, topo, legacy, t) IN
    [rt |-> IF Len(g.links) > 0
            THEN dijkstra_shortest_path(node_id, g.links, t) ELSE <<>>,
     topo |-> g.topo, legacy |-> g.legacy]


(***************************************************************************)
(* TC reception (src/src/tc.c) and the entry point receive_control_message *)
(* (src/src/main.c).  A TC body is [null, ansn, selectors].                *)
(***************************************************************************)
TcMessage(originator, seq_num, ttl, hop_count, body) ==
    [msg_type |-> MSG_TC, vtime |-> TC_VALIDITY_TIME, originator |-> originator,
     ttl |-> ttl, hop_count |-> hop_count, msg_seq_num |-> seq_num, body |-> body]

\* step 3 of process_tc_message: the loop over the advertised selectors
RECURSIVE TcSelectorLoop(_, _, _, _)
TcSelectorLoop(st, msg, validity, i) ==
    IF i > Len(msg.body.selectors) THEN st
    ELSE LET selector == msg.body.selectors[i] IN
         TcSelectorLoop(
            [topo    |-> add_topology_link(st.topo, msg.originator, selector,
                                           msg.body.ansn, validity),
             legacy  |-> update_tc_topology(st.legacy, msg.originator, selector,
                                            validity),
             updated |-> st.updated
                         \/ add_topology_link_rc(st.topo, msg.originator, selector) = 0],
            msg, validity, i + 1)

\* st = [nt, dt, topo, legacy, rt, queue]; the result has the same shape
process_tc_message(st, msg, sender_addr, t) ==
    IF msg.msg_type # MSG_TC THEN st
    ELSE IF is_duplicate_message(st.dt, msg.originator, msg.msg_seq_num) THEN st
    ELSE LET dt1 == add_duplicate_entry(st.dt, msg.originator, msg.msg_seq_num, t) IN
         IF msg.body.null THEN [st EXCEPT !.dt = dt1]
         ELSE LET lp == TcSelectorLoop([topo |-> st.topo, legacy |-> st.legacy,
                                        updated |-> FALSE], msg, t + msg.vtime, 1)
                  r  == IF lp.updated
                        THEN update_routing_table(st.nt, lp.topo, lp.legacy, t)
                        ELSE [rt |-> st.rt, topo |-> lp.topo, legacy |-> lp.legacy]
              IN [nt     |-> st.nt,
                  dt     |-> dt1,
                  topo   |-> r.topo,
                  legacy |-> r.legacy,
                  rt     |-> r.rt,
                  queue  |-> IF should_forward_message(st.nt, sender_addr)
                             THEN forward_tc_message(st.queue, msg, t)
                             ELSE st.queue]

\* receive_control_message for msg_type = MSG_TC
receive_control_message_tc(st, sender_id, originator_id, seq_num, ttl, hop_count, body, t) ==
    IF is_duplicate_message(st.dt, originator_id, seq_num) THEN st
    ELSE process_tc_message(
            [st EXCEPT !.dt = add_duplicate_entry(st.dt, originator_id, seq_num, t)],
            TcMessage(originator_id, seq_num, ttl, hop_count, body), sender_id, t)


(***************************************************************************)
(* Initial state: the tables are empty, node_id is set, time starts at 0.  *)
(***************************************************************************)
NoTc == [null |-> FALSE, ansn |-> 0, selectors |-> <<>>]

\* The linked list of a struct control_queue.  A node lives at an address of
\* 1..MaxHeap; 0 is NULL; mem[a] is the node that malloc returned at a and
\* free() has not released yet.
MAX_QUEUE_SIZE == 100
MaxHeap == MAX_QUEUE_SIZE + 1
init_control_queue ==
    [head |-> 0, tail |-> 0, count |-> 0, mem |-> [a \in {} |-> 0]]
NoHello == [hello_interval |-> 0, willingness |-> 0, reserved_slot |-> 0,
            neighbors |-> <<>>, two_hop_neighbors |-> <<>>]

Init ==
    /\ now = 0
    /\ neighbor_table = <<>>
    /\ two_hop_table = <<>>
    /\ mpr_set = <<>>
    /\ neighbor_slots = <<>>
    /\ duplicate_table = <<>>
    /\ global_topology = <<>>
    /\ tc_topology = <<>>
    /\ routing_table = <<>>
    /\ global_ctrl_queue = <<>>
    /\ ctrl_queue = <<>>
    /\ hello_msg_static = NoHello
    /\ message_seq_num = 0
    /\ ansn_counter = 0
    /\ tc_msg = NoTc
    /\ loop_started = FALSE
    /\ last_hello_time = 0
    /\ last_tc_time = 0
    /\ last_timeout_check = 0
    /\ last_global_cleanup = 0
    /\ topology_changed = FALSE
    /\ control_queue = init_control_queue
    /\ rrc_to_olsr_queue = <<>>
    /\ olsr_to_rrc_queue = <<>>
    /\ last = [op |-> "init"]
    /\ hello_listed = [n \in Others \cup {ExtraNode} |-> "none"]
    /\ ansn_seen = [p \in Nodes \X Nodes |-> -1]
    /\ ansn_max_from = [n \in Nodes |-> -1]

(***************************************************************************)
(* Actions of the HELLO side.                                              *)
(***************************************************************************)
\* time(NULL) advances by d seconds
Tick(d) ==
    /\ now + d <= MaxTicks * d
    /\ now' = now + d
    /\ last' = [op |-> "tick"]
    /\ UNCHANGED <<helloVars, tcVars, sendVars, loopVars, hello_listed, ansn_seen,
                   ansn_max_from>>

\* receive_control_message(hello, MSG_HELLO, sender, ...): no duplicate
\* check, the HELLO goes to process_hello_message
ReceiveHello(sender, hello) ==
    \E r \in {process_hello_message(neighbor_table, two_hop_table,
                                    neighbor_slots, hello, sender, now)} :
    /\ neighbor_table' = r.nt
    /\ two_hop_table' = r.th
    /\ mpr_set' = r.mpr
    /\ neighbor_slots' = r.slots
    /\ hello_listed' = [hello_listed EXCEPT ![sender] =
                           IF WeAreMentioned(hello) THEN "listed" ELSE "unlisted"]
    /\ last' = [op |-> "receive_hello"]
    /\ UNCHANGED <<now, tcVars, sendVars, loopVars, ansn_seen, ansn_max_from>>

\* check_neighbor_timeouts()
CheckNeighborTimeouts ==
    \E r \in {check_neighbor_timeouts(neighbor_table, two_hop_table, mpr_set,
                                      neighbor_slots, now)} :
    /\ neighbor_table' = r.nt
    /\ two_hop_table' = r.th
    /\ mpr_set' = r.mpr
    /\ neighbor_slots' = r.slots
    /\ last' = [op |-> "check_neighbor_timeouts", failed_count |-> r.failed_count]
    /\ UNCHANGED <<now, tcVars, sendVars, loopVars, hello_listed, ansn_seen,
                   ansn_max_from>>

\* the HELLO payloads a peer may send: an optional entry for this node
\* followed by an optional entry for a third node
HelloSelfEntries ==
    {<<>>} \cup {<<[neighbor_id |-> node_id, link_code |-> c]>> :
                    c \in {SYM_LINK, MPR_NEIGH}}
HelloOtherEntries(sender) ==
    {<<>>} \cup {<<[neighbor_id |-> n, link_code |-> c]>> :
                    n \in Others \ {sender}, c \in {SYM_LINK, ASYM_LINK}}
HelloInputs(sender, wills) ==
    {[hello_interval |-> HELLO_INTERVAL, willingness |-> w, reserved_slot |-> -1,
      neighbors |-> a \o b, two_hop_neighbors |-> <<>>] :
        w \in wills, a \in HelloSelfEntries, b \in HelloOtherEntries(sender)}

HelloSenders == Others \ {MaxNode}
HelloWills == {WILL_NEVER, WILL_DEFAULT, WILL_ALWAYS}

NextHello ==
    \/ Tick(HELLO_TIMEOUT + 1)
    \/ \E sender \in HelloSenders :
           \E hello \in HelloInputs(sender, HelloWills) : ReceiveHello(sender, hello)
    \/ CheckNeighborTimeouts

SpecHello == Init /\ [][NextHello]_vars


(***************************************************************************)
(* HELLO emission: send_hello_message(&ctrl_queue).                        *)
(***************************************************************************)
is_mpr(mpr, neighbor_id) == \E i \in 1..Len(mpr) : mpr[i] = neighbor_id

SendHello ==
    /\ message_seq_num < MaxSeq
    /\ Len(ctrl_queue) < MaxQueue
    /\ hello_msg_static' = generate_hello_message(neighbor_table, two_hop_table,
                                                  neighbor_slots)
    /\ message_seq_num' = (message_seq_num + 1) % Uint16
    /\ ctrl_queue' = push_to_control_queue(ctrl_queue, MSG_HELLO,
                                           [ref |-> "hello_msg_static"], now)
    /\ last' = [op |-> "send_hello"]
    /\ UNCHANGED <<now, helloVars, tcVars, ansn_counter, tc_msg, loopVars,
                   hello_listed, ansn_seen,
                   ansn_max_from>>

NextSend ==
    \/ \E sender \in HelloSenders :
           \E hello \in HelloInputs(sender, {WILL_DEFAULT}) :
               ReceiveHello(sender, hello)
    \/ SendHello

SpecSend == Init /\ [][NextSend]_vars

(***************************************************************************)
(* C3: in the HELLO that generate_hello_message has just produced, every   *)
(* neighbor that is in the MPR set is listed with link_code MPR_NEIGH and  *)
(* every other neighbor with the code of its link_status.                  *)
(***************************************************************************)
C3_HelloListsMprAsMprNeigh ==
    last.op = "send_hello" =>
        /\ Len(hello_msg_static.neighbors) = Len(neighbor_table)
        /\ \A i \in 1..Len(neighbor_table) :
              /\ hello_msg_static.neighbors[i].neighbor_id
                     = neighbor_table[i].neighbor_id
              /\ hello_msg_static.neighbors[i].link_code
                     = IF is_mpr(mpr_set, neighbor_table[i].neighbor_id)
                       THEN MPR_NEIGH
                       ELSE neighbor_table[i].link_status

(***************************************************************************)
(* C6: between operations, after any sequence of HELLO receptions and      *)
(* timeout scans, every id in the MPR set is a neighbor-table entry with   *)
(* link_status SYM and willingness other than WILL_NEVER.                  *)
(***************************************************************************)
C6_MprMembersSymWilling ==
    \A i \in 1..Len(mpr_set) :
        \E j \in 1..Len(neighbor_table) :
            /\ neighbor_table[j].neighbor_id = mpr_set[i]
            /\ neighbor_table[j].link_status = SYM_LINK
            /\ neighbor_table[j].willingness # WILL_NEVER

\* an MPR is selected while a WILL_NEVER symmetric neighbor offers a path too,
\* and a timeout scan has just run
C6_Witness ==
    /\ last.op = "check_neighbor_timeouts"
    /\ Len(mpr_set) > 0
    /\ \E j \in 1..Len(neighbor_table) :
          /\ neighbor_table[j].link_status = SYM_LINK
          /\ neighbor_table[j].willingness = WILL_NEVER
          /\ \E k \in 1..Len(two_hop_table) :
                two_hop_table[k].one_hop_addr = neighbor_table[j].neighbor_id

(***************************************************************************)
(* C7: after any sequence of HELLO receptions and timeout scans, no        *)
(* two-hop entry names this node, and no two-hop entry names a node that   *)
(* is also a neighbor-table entry with a SYM link.                         *)
(***************************************************************************)
C7_TwoHopExcludesSelfAndSymNeighbors ==
    \A k \in 1..Len(two_hop_table) :
        /\ two_hop_table[k].neighbor_id # node_id
        /\ ~\E j \in 1..Len(neighbor_table) :
               /\ neighbor_table[j].neighbor_id = two_hop_table[k].neighbor_id
               /\ neighbor_table[j].link_status = SYM_LINK

(***************************************************************************)
(* C8: a neighbor has link_status SYM only if the most recent HELLO        *)
(* processed from it listed this node in its neighbors[].                  *)
(***************************************************************************)
C8_SymOnlyIfLastHelloListedUs ==
    \A j \in 1..Len(neighbor_table) :
        neighbor_table[j].link_status = SYM_LINK
            => hello_listed[neighbor_table[j].neighbor_id] = "listed"

\* one neighbor is SYM, another one's last HELLO did not list this node
C8_Witness ==
    /\ \E j \in 1..Len(neighbor_table) :
          neighbor_table[j].link_status = SYM_LINK
    /\ \E j \in 1..Len(neighbor_table) :
          /\ neighbor_table[j].link_status = ASYM_LINK
          /\ hello_listed[neighbor_table[j].neighbor_id] = "unlisted"


(***************************************************************************)
(* The MPR module driven through its API, as mpr_test.c does: neighbors    *)
(* and two-hop entries are added directly, then calculate_mpr_set() runs.  *)
(***************************************************************************)
AddNeighbor(id, link_code, willingness) ==
    /\ FindNeighbor(neighbor_table, id) = 0
    /\ Len(neighbor_table) < MaxNeighbors
    /\ neighbor_table' = add_neighbor(neighbor_table, id, link_code,
                                      willingness, now)
    /\ last' = [op |-> "add_neighbor"]
    /\ UNCHANGED <<now, two_hop_table, mpr_set, neighbor_slots, tcVars,
                   sendVars, loopVars, hello_listed, ansn_seen,
                   ansn_max_from>>

AddTwoHopNeighbor(two_hop_addr, one_hop_addr) ==
    /\ two_hop_table' = add_two_hop_neighbor(two_hop_table, two_hop_addr,
                                             one_hop_addr, now)
    /\ last' = [op |-> "add_two_hop_neighbor"]
    /\ UNCHANGED <<now, neighbor_table, mpr_set, neighbor_slots, tcVars,
                   sendVars, loopVars, hello_listed, ansn_seen,
                   ansn_max_from>>

CalculateMprSet ==
    \E m \in {calculate_mpr_set(neighbor_table, two_hop_table)} :
    /\ neighbor_table' = m.nt
    /\ mpr_set' = m.mpr
    /\ last' = [op |-> "calculate_mpr_set"]
    /\ UNCHANGED <<now, two_hop_table, neighbor_slots, tcVars, sendVars, loopVars,
                   hello_listed, ansn_seen,
                   ansn_max_from>>

MprNeighbors == HelloSenders
MprWills == {WILL_NEVER, WILL_LOW, WILL_HIGH, WILL_ALWAYS}

NextMpr ==
    \/ \E id \in MprNeighbors, l \in {SYM_LINK, ASYM_LINK}, w \in MprWills :
           AddNeighbor(id, l, w)
    \/ \E x \in Others, n \in MprNeighbors : x # n /\ AddTwoHopNeighbor(x, n)
    \/ CalculateMprSet

SpecMpr == Init /\ [][NextMpr]_vars

\* two-hop id x has an entry via neighbor n
ReachableVia(x, n) ==
    \E k \in 1..Len(two_hop_table) :
        /\ two_hop_table[k].neighbor_id = x
        /\ two_hop_table[k].one_hop_addr = n

EligibleNeighbor(n) ==
    \E j \in 1..Len(neighbor_table) :
        /\ neighbor_table[j].neighbor_id = n
        /\ neighbor_table[j].link_status = SYM_LINK
        /\ neighbor_table[j].willingness # WILL_NEVER

(***************************************************************************)
(* C4: right after calculate_mpr_set() with a non-empty two-hop table,     *)
(* every two-hop id reachable via at least one SYM neighbor whose          *)
(* willingness is not WILL_NEVER is reachable via some member of the MPR   *)
(* set.                                                                    *)
(***************************************************************************)
C4_EligibleTwoHopCovered ==
    (last.op = "calculate_mpr_set" /\ Len(two_hop_table) > 0) =>
        \A k \in 1..Len(two_hop_table) :
            (\E n \in Nodes : /\ EligibleNeighbor(n)
                              /\ ReachableVia(two_hop_table[k].neighbor_id, n))
            => \E n \in Nodes : /\ is_mpr(mpr_set, n)
                                /\ ReachableVia(two_hop_table[k].neighbor_id, n)

\* calculate_mpr_set() has run on a two-hop id with two eligible paths and
\* no neighbor that is the only path
C4_Witness ==
    /\ last.op = "calculate_mpr_set"
    /\ \E x \in Nodes : \E n1, n2 \in Nodes :
          /\ n1 # n2
          /\ EligibleNeighbor(n1) /\ ReachableVia(x, n1)
          /\ EligibleNeighbor(n2) /\ ReachableVia(x, n2)
    /\ \A j \in 1..Len(neighbor_table) :
          /\ neighbor_table[j].willingness # WILL_ALWAYS
          /\ ~is_only_path(two_hop_table, neighbor_table[j].neighbor_id)
    /\ Len(mpr_set) > 0

(***************************************************************************)
(* C5: when two SYM neighbors with different willingness (neither          *)
(* WILL_NEVER nor WILL_ALWAYS) are each a via-neighbor of the same         *)
(* two-hop node and there is no other two-hop entry, calculate_mpr_set()   *)
(* yields an MPR set holding exactly the higher-willingness neighbor.      *)
(***************************************************************************)
C5_HigherWillingnessOnlyMpr ==
    \A a, b \in 1..Len(neighbor_table) :
        ( /\ last.op = "calculate_mpr_set"
          /\ neighbor_table[a].link_status = SYM_LINK
          /\ neighbor_table[b].link_status = SYM_LINK
          /\ neighbor_table[a].willingness \notin {WILL_NEVER, WILL_ALWAYS}
          /\ neighbor_table[b].willingness \notin {WILL_NEVER, WILL_ALWAYS}
          /\ neighbor_table[a].willingness > neighbor_table[b].willingness
          /\ Len(two_hop_table) = 2
          /\ \E x \in Nodes :
                /\ ReachableVia(x, neighbor_table[a].neighbor_id)
                /\ ReachableVia(x, neighbor_table[b].neighbor_id) )
        => /\ mpr_set = <<neighbor_table[a].neighbor_id>>
           /\ ~is_mpr(mpr_set, neighbor_table[b].neighbor_id)


(***************************************************************************)
(* Actions of the TC side.                                                 *)
(***************************************************************************)
TcState == [nt |-> neighbor_table, dt |-> duplicate_table,
            topo |-> global_topology, legacy |-> tc_topology,
            rt |-> routing_table, queue |-> global_ctrl_queue]

\* history: for every stored link the largest ansn of the TCs applied to it
\* since it was inserted; -1 for a pair that is not stored
AnsnSeenAfter(seen, topo_before, topo_after, originator, body, applied) ==
    [p \in Nodes \X Nodes |->
        IF FindLink(topo_after, p[1], p[2]) = 0 THEN -1
        ELSE IF applied /\ p[1] = originator
                /\ \E i \in 1..Len(body.selectors) : body.selectors[i] = p[2]
        THEN IF FindLink(topo_before, p[1], p[2]) # 0
             THEN Max2(seen[p], body.ansn) ELSE body.ansn
        ELSE seen[p]]

TcApplied(st, originator, seq_num, body) ==
    ~is_duplicate_message(st.dt, originator, seq_num) /\ ~body.null

SetTcState(r) ==
    /\ duplicate_table' = r.dt
    /\ global_topology' = r.topo
    /\ tc_topology' = r.legacy
    /\ routing_table' = r.rt
    /\ global_ctrl_queue' = r.queue

\* receive_control_message(body, MSG_TC, sender, originator, seq, ttl, hops)
ReceiveTC(sender, m) ==
    \E r \in {receive_control_message_tc(TcState, sender, m.originator,
                  m.seq_num, m.ttl, m.hop_count, m.body, now)} :
    /\ Len(r.queue) <= MaxQueue
    /\ SetTcState(r)
    \* the entry's own duplicate record makes process_tc_message drop the
    \* TC unless the duplicate table was full
    /\ \E applied \in {Len(duplicate_table) >= MaxDup
                        /\ TcApplied(TcState, m.originator, m.seq_num, m.body)} :
          /\ ansn_seen' = AnsnSeenAfter(ansn_seen, global_topology, r.topo,
                                        m.originator, m.body, applied)
          /\ ansn_max_from' = IF applied
                              THEN [ansn_max_from EXCEPT ![m.originator] =
                                       Max2(@, m.body.ansn)]
                              ELSE ansn_max_from
    /\ last' = [op |-> "receive_tc", originator |-> m.originator,
                seq_num |-> m.seq_num,
                fresh |-> ~is_duplicate_message(duplicate_table, m.originator,
                                                m.seq_num)]
    /\ UNCHANGED <<now, helloVars, sendVars, loopVars, hello_listed>>

\* process_tc_message(&msg, sender) called on a TC message
ProcessTC(sender, m) ==
    \E r \in {process_tc_message(TcState,
                  TcMessage(m.originator, m.seq_num, m.ttl, m.hop_count, m.body),
                  sender, now)} :
    /\ Len(r.queue) <= MaxQueue
    /\ SetTcState(r)
    /\ \E applied \in {TcApplied(TcState, m.originator, m.seq_num, m.body)} :
          /\ ansn_seen' = AnsnSeenAfter(ansn_seen, global_topology, r.topo,
                                        m.originator, m.body, applied)
          /\ ansn_max_from' = IF applied
                              THEN [ansn_max_from EXCEPT ![m.originator] =
                                       Max2(@, m.body.ansn)]
                              ELSE ansn_max_from
    /\ last' = [op |-> "process_tc", originator |-> m.originator,
                seq_num |-> m.seq_num,
                fresh |-> ~is_duplicate_message(duplicate_table, m.originator,
                                                m.seq_num)]
    /\ UNCHANGED <<now, helloVars, sendVars, loopVars, hello_listed>>

\* cleanup_topology_links(), the periodic maintenance of the database
CleanupTopologyLinks ==
    /\ global_topology' = cleanup_topology_links(global_topology, now)
    /\ ansn_seen' = AnsnSeenAfter(ansn_seen, global_topology, global_topology',
                                  node_id, [selectors |-> <<>>], FALSE)
    /\ last' = [op |-> "cleanup_topology_links"]
    /\ UNCHANGED <<now, helloVars, sendVars, loopVars, hello_listed, ansn_max_from,
                   duplicate_table, tc_topology, routing_table,
                   global_ctrl_queue>>

\* The TC messages on the air.  A message is identified by (originator, seq):
\* the sender relays TCs of one originator, whose advertised selector list,
\* ansn and remaining ttl differ from one message to the next.
TcSender == CHOOSE n \in Others : \A m \in Others : n <= m
TcOriginator == TcSender + 1
TcSelectorLists == <<<<node_id, MaxNode>>, <<MaxNode>>, <<TcSender, MaxNode>>>>
TcInput(q) ==
    [originator |-> TcOriginator, seq_num |-> q,
     ttl |-> IF q % 3 = 0 THEN 1 ELSE 2, hop_count |-> 1,
     body |-> [null |-> FALSE,
               ansn |-> IF q % 3 = 1 THEN 1 ELSE MaxAnsn - (q % 2),
               selectors |-> TcSelectorLists[(q % 3) + 1]]]
TcInputs == {TcInput(q) : q \in 1..MaxTcSeq}

\* the HELLOs of the TC sender: it lists this node, or selects it as MPR
TcHelloInputs ==
    {[hello_interval |-> HELLO_INTERVAL, willingness |-> WILL_DEFAULT,
      reserved_slot |-> -1, neighbors |-> a, two_hop_neighbors |-> <<>>] :
        a \in HelloSelfEntries \ {<<>>}}

NextTC ==
    \/ Tick(TC_VALIDITY_TIME)
    \/ \E hello \in TcHelloInputs : ReceiveHello(TcSender, hello)
    \/ \E m \in TcInputs : ReceiveTC(TcSender, m)
    \/ \E m \in TcInputs : ProcessTC(TcSender, m)
    \/ CleanupTopologyLinks

SpecTC == Init /\ [][NextTC]_vars


(***************************************************************************)
(* C1: when receive_control_message is called with a valid TC whose        *)
(* (originator, seq) is not yet in the duplicate set, the topology         *)
(* database afterwards holds a link (originator -> s) carrying the         *)
(* message's ansn for every selector s of the payload, unless the          *)
(* database is full.                                                       *)
(***************************************************************************)
C1_ReceivedTcEntersTopology ==
    (last.op = "receive_tc" /\ last.fresh) =>
        LET m == TcInput(last.seq_num) IN
        \A i \in 1..Len(m.body.selectors) :
            LET k == FindLink(global_topology, m.originator,
                              m.body.selectors[i]) IN
            \/ k # 0 /\ global_topology[k].ansn = m.body.ansn
            \/ k = 0 /\ Len(global_topology) >= MaxTopo

(***************************************************************************)
(* C2: in any reachable state, the duplicate set at capacity included,     *)
(* processing the same TC (same originator and seq) a second time right    *)
(* after the first leaves the neighbor, topology, duplicate and routing    *)
(* tables as the first call left them and enqueues no forwarded message.   *)
(***************************************************************************)
C2_SameTcTwiceChangesNothing ==
    [][(/\ last.op = "process_tc"
        /\ last'.op = "process_tc"
        /\ last'.originator = last.originator
        /\ last'.seq_num = last.seq_num)
       => /\ neighbor_table' = neighbor_table
          /\ global_topology' = global_topology
          /\ duplicate_table' = duplicate_table
          /\ routing_table' = routing_table
          /\ global_ctrl_queue' = global_ctrl_queue]_vars

LinkEntry(topo, from_node, to_node) ==
    LET k == FindLink(topo, from_node, to_node) IN
    IF k = 0 THEN [present |-> FALSE, ansn |-> 0, validity_time |-> 0]
    ELSE [present |-> TRUE, ansn |-> topo[k].ansn,
          validity_time |-> topo[k].validity_time]

AddTopologyLink(from_node, to_node, ansn, validity_time) ==
    /\ global_topology' = add_topology_link(global_topology, from_node, to_node,
                                            ansn, validity_time)
    /\ last' = [op |-> "add_topology_link", from_node |-> from_node,
                to_node |-> to_node, ansn |-> ansn,
                validity_time |-> validity_time,
                stored |-> LinkEntry(global_topology, from_node, to_node)]
    /\ UNCHANGED <<now, helloVars, sendVars, loopVars, hello_listed, ansn_seen,
                   ansn_max_from, duplicate_table, tc_topology, routing_table,
                   global_ctrl_queue>>

TopoValidities == {now + 1, now + TC_VALIDITY_TIME}

NextTopo ==
    \/ Tick(1)
    \/ \E f \in {TcSender, TcOriginator}, t \in {node_id, MaxNode},
          a \in 0..MaxAnsn, v \in TopoValidities : AddTopologyLink(f, t, a, v)
    \/ CleanupTopologyLinks

SpecTopo == Init /\ [][NextTopo]_vars

(***************************************************************************)
(* C10: add_topology_link(from, to, k, v1) followed by                     *)
(* add_topology_link(from, to, k-1, v2) leaves the ansn and the validity   *)
(* of the (from, to) entry exactly as they were after the first call.      *)
(***************************************************************************)
C10_LowerAnsnLeavesEntry ==
    [][(/\ last.op = "add_topology_link"
        /\ last'.op = "add_topology_link"
        /\ last'.from_node = last.from_node
        /\ last'.to_node = last.to_node
        /\ last'.ansn = last.ansn - 1)
       => LinkEntry(global_topology', last.from_node, last.to_node)
            = LinkEntry(global_topology, last.from_node, last.to_node)]_vars

\* the second call, with ansn k-1 and another validity, has just been made
\* on an entry that the first call had written with ansn k
C10_Witness ==
    /\ last.op = "add_topology_link"
    /\ last.stored.present
    /\ last.stored.ansn = last.ansn + 1
    /\ last.stored.validity_time # last.validity_time
    /\ LinkEntry(global_topology, last.from_node, last.to_node) = last.stored


(***************************************************************************)
(* TC emission (src/src/tc.c): generate_tc_message / send_tc_message.      *)
(***************************************************************************)
get_mpr_selector_count(nt) ==
    Len(SelectSeq(nt, LAMBDA e : e.link_status = SYM_LINK /\ e.is_mpr_selector))

\* the TC body written into the static buffer, ansn = ++ansn_counter
generate_tc_message(nt, counter) ==
    LET sel == SelectSeq(nt, LAMBDA e : e.link_status = SYM_LINK
                                        /\ e.is_mpr_selector) IN
    [null |-> FALSE, ansn |-> (counter + 1) % Uint16,
     selectors |-> [i \in 1..Len(sel) |-> sel[i].neighbor_id]]

\* send_tc_message(queue); st = [nt, dt, queue, seq, counter, tc]
send_tc_message(st, t) ==
    IF get_mpr_selector_count(st.nt) = 0 THEN st
    ELSE LET tc  == generate_tc_message(st.nt, st.counter)
             seq == (st.seq + 1) % Uint16
         IN [nt      |-> st.nt,
             dt      |-> add_duplicate_entry(st.dt, node_id, seq, t),
             queue   |-> push_to_control_queue(st.queue, MSG_TC,
                                               [ref |-> "tc_msg"], t),
             seq     |-> seq,
             counter |-> tc.ansn,
             tc      |-> tc]

SendTC ==
    \E r \in {send_tc_message([nt |-> neighbor_table, dt |-> duplicate_table,
                               queue |-> ctrl_queue, seq |-> message_seq_num,
                               counter |-> ansn_counter, tc |-> tc_msg], now)} :
    /\ message_seq_num < MaxSeq
    /\ Len(ctrl_queue) < MaxQueue
    /\ duplicate_table' = r.dt
    /\ ctrl_queue' = r.queue
    /\ message_seq_num' = r.seq
    /\ ansn_counter' = r.counter
    /\ tc_msg' = r.tc
    /\ last' = [op |-> "send_tc"]
    /\ UNCHANGED <<now, helloVars, global_topology, tc_topology, routing_table,
                   global_ctrl_queue, hello_msg_static, loopVars, hello_listed,
                   ansn_seen, ansn_max_from>>

\* TCs that carry this node's own id as originator: the echo of a TC this
\* node sent (seq 1..MaxSeq) and one it never sent
SelfTcInput(q) ==
    [originator |-> node_id, seq_num |-> q, ttl |-> 2, hop_count |-> 1,
     body |-> [null |-> FALSE, ansn |-> 1,
               selectors |-> IF q % 2 = 1 THEN <<TcSender>> ELSE <<MaxNode>>]]
SelfTcInputs == {SelfTcInput(q) : q \in 1..(MaxSeq + 1)}

NextSelfTc ==
    \/ \E hello \in TcHelloInputs : ReceiveHello(TcSender, hello)
    \/ SendTC
    \/ \E m \in SelfTcInputs \cup {TcInput(1)} : ReceiveTC(TcSender, m)
    \/ \E m \in SelfTcInputs : ProcessTC(TcSender, m)

SpecSelfTc == Init /\ [][NextSelfTc]_vars

(***************************************************************************)
(* C11: whatever TC is received (any originator, seq and sender, a TC      *)
(* whose originator is this node included), the topology database never    *)
(* holds a link whose from end is this node.                               *)
(***************************************************************************)
C11_NoTopologyLinkFromSelf ==
    \A k \in 1..Len(global_topology) : global_topology[k].from_node # node_id


(***************************************************************************)
(* Routing recomputation: update_routing_table() called on the tables the  *)
(* HELLO and TC handlers have built.                                       *)
(***************************************************************************)
\* the node ids dijkstra_shortest_path collects from the current tables
DijkstraNodesNow ==
    DijkstraNodes(<<node_id>>,
                  build_topology_graph(neighbor_table, global_topology,
                                       tc_topology, now).links, 1)

\* With more than MAX_NODES ids collected the arrays nodes, dist, sptSet
\* and parent are written past their end: the behaviour is undefined, the
\* table left is either the one computed as if the arrays had room or
\* an empty one.
UpdateRoutingTable ==
    \E r \in {update_routing_table(neighbor_table, global_topology,
                                   tc_topology, now)} :
    /\ routing_table' \in (IF Len(DijkstraNodesNow) > MAX_NODES
                           THEN {r.rt, <<>>} ELSE {r.rt})
    /\ global_topology' = r.topo
    /\ tc_topology' = r.legacy
    /\ ansn_seen' = AnsnSeenAfter(ansn_seen, global_topology, r.topo,
                                  node_id, [selectors |-> <<>>], FALSE)
    /\ last' = [op |-> "update_routing_table"]
    /\ UNCHANGED <<now, helloVars, sendVars, loopVars, hello_listed,
                   ansn_max_from, duplicate_table, global_ctrl_queue>>

\* HELLOs of a peer: it lists this node or not; the first peer also lists
\* the far node or not
RouteHelloInputs(sender) ==
    {[hello_interval |-> HELLO_INTERVAL, willingness |-> WILL_DEFAULT,
      reserved_slot |-> -1, neighbors |-> a \o b, two_hop_neighbors |-> <<>>] :
        a \in {<<>>, <<[neighbor_id |-> node_id, link_code |-> SYM_LINK]>>},
        b \in IF sender = TcSender
              THEN {<<>>, <<[neighbor_id |-> MaxNode, link_code |-> SYM_LINK]>>}
              ELSE {<<>>}}

\* TCs of the peers, each advertising the next node (2 -> 3, 3 -> 4), and
\* one TC that carries this node's own id as originator
RouteTcInput(o) ==
    [originator |-> o, seq_num |-> 1, ttl |-> 1, hop_count |-> 1,
     body |-> [null |-> FALSE, ansn |-> 1, selectors |-> <<o + 1>>]]
RouteTcInputs ==
    {RouteTcInput(o) : o \in TcSender..(MaxNode - 1)} \cup {SelfTcInput(MaxSeq + 1)}

NextRoute ==
    \/ Tick(TC_VALIDITY_TIME)
    \/ \E sender \in HelloSenders :
           \E hello \in RouteHelloInputs(sender) : ReceiveHello(sender, hello)
    \/ \E m \in RouteTcInputs : ProcessTC(TcSender, m)
    \/ UpdateRoutingTable

SpecRoute == Init /\ [][NextRoute]_vars

IsSymNeighbor(n) ==
    \E i \in 1..Len(neighbor_table) :
        /\ neighbor_table[i].neighbor_id = n
        /\ neighbor_table[i].link_status = SYM_LINK

\* the directed unit-cost graph: this node -> SYM neighbor, and the
\* unexpired topology links
RouteEdges ==
    {<<node_id, n>> : n \in {m \in Nodes : IsSymNeighbor(m)}}
    \cup {<<global_topology[k].from_node, global_topology[k].to_node>> :
             k \in {j \in 1..Len(global_topology) :
                       global_topology[j].validity_time > now}}
    \cup {<<tc_topology[k].from_id, tc_topology[k].to_id>> :
             k \in {j \in 1..Len(tc_topology) : tc_topology[j].validity > now}}

\* the nodes within k edges of the set S
RECURSIVE ReachWithin(_, _, _)
ReachWithin(E, S, k) ==
    IF k = 0 THEN S
    ELSE ReachWithin(E, S \cup {e[2] : e \in {x \in E : x[1] \in S}}, k - 1)

\* length of a shortest path from a to b, -1 when there is none
PathLength(E, a, b) ==
    IF \E k \in 0..MaxNode : b \in ReachWithin(E, {a}, k)
    THEN CHOOSE k \in 0..MaxNode :
             /\ b \in ReachWithin(E, {a}, k)
             /\ \A j \in 0..(k - 1) : b \notin ReachWithin(E, {a}, j)
    ELSE -1

(***************************************************************************)
(* C12: immediately after a routing recomputation every routing entry has  *)
(* hops >= 1 and a next hop that is a SYM neighbor of this node, and every *)
(* entry with hops = 1 has next_hop_id = dest_id, dest_id a SYM neighbor.  *)
(***************************************************************************)
C12_RoutesStartAtSymNeighbor ==
    last.op = "update_routing_table" =>
        \A i \in 1..Len(routing_table) :
            /\ routing_table[i].hops >= 1
            /\ IsSymNeighbor(routing_table[i].next_hop_id)
            /\ routing_table[i].hops = 1 =>
                  /\ routing_table[i].next_hop_id = routing_table[i].dest_id
                  /\ IsSymNeighbor(routing_table[i].dest_id)

C15_TwoHopNeighborRoutedViaNeighbor ==
    last.op = "update_routing_table" =>
        \A k \in 1..Len(two_hop_table) :
            (/\ IsSymNeighbor(two_hop_table[k].one_hop_addr)
             /\ FindNeighbor(neighbor_table, two_hop_table[k].neighbor_id) = 0)
            => \E i \in 1..Len(routing_table) :
                  /\ routing_table[i].dest_id = two_hop_table[k].neighbor_id
                  /\ routing_table[i].hops = 2
                  /\ IsSymNeighbor(routing_table[i].next_hop_id)
                  /\ \E j \in 1..Len(two_hop_table) :
                        /\ two_hop_table[j].neighbor_id
                               = two_hop_table[k].neighbor_id
                        /\ two_hop_table[j].one_hop_addr
                               = routing_table[i].next_hop_id


(***************************************************************************)
(* get_next_hop (src/src/routing.c): route lookup with liveness check of   *)
(* the planned next hop, reroute, and the link-failure notification.       *)
(***************************************************************************)
NEIGHB_HOLD_TIME == 6

\* a notification that is dropped instead of being emitted
notify_rrc_link_failure_dropped(events, dest_id, failed_next_hop) == events

\* notify_rrc_link_failure: one event {dest, failed_next_hop} leaves the core
notify_rrc_link_failure(events, dest_id, failed_next_hop) ==
    Append(events, [dest |-> dest_id, failed_next_hop |-> failed_next_hop])

\* get_next_hop(dest_id, ...): return code, outputs, events, and the tables
\* the reroute path rewrites; next_hop_id 0 stands for an output not written
get_next_hop(rt, nt, topo, legacy, dest_id, t) ==
    LET keep(rc, nh, ev) == [rc |-> rc, next_hop_id |-> nh, events |-> ev,
                             rt |-> rt, topo |-> topo, legacy |-> legacy]
        route_index == FirstIndex([x \in 1..Len(rt) |-> rt[x].dest_id = dest_id])
    IN
    IF dest_id = node_id THEN keep(1, node_id, <<>>)
    ELSE IF route_index = 0 THEN keep(-1, 0, <<>>)
    ELSE
      LET planned_next_hop == rt[route_index].next_hop_id
          n == FindNeighbor(nt, planned_next_hop)
          next_hop_valid == n # 0 /\ t - nt[n].last_seen < NEIGHB_HOLD_TIME
          links == get_all_topology_links(topo, t)
          dest_exists_in_network ==
              \/ FindNeighbor(nt, dest_id) # 0
              \/ \E k \in 1..Len(links) :
                     links[k].from_id = dest_id \/ links[k].to_id = dest_id
      IN
      IF next_hop_valid THEN keep(0, planned_next_hop, <<>>)
      ELSE IF ~dest_exists_in_network
      THEN keep(-2, 0, notify_rrc_link_failure(<<>>, dest_id, planned_next_hop))
      ELSE
        LET u == update_routing_table(nt, topo, legacy, t)
            again == FirstIndex([x \in 1..Len(u.rt) |-> u.rt[x].dest_id = dest_id])
        IN [rc |-> IF again = 0 THEN -2 ELSE 0,
            next_hop_id |-> IF again = 0 THEN 0 ELSE u.rt[again].next_hop_id,
            events |-> IF again = 0
                       THEN notify_rrc_link_failure(<<>>, dest_id, planned_next_hop)
                       ELSE <<>>,
            rt |-> u.rt, topo |-> u.topo, legacy |-> u.legacy]

GetNextHop(dest_id) ==
    \E r \in {get_next_hop(routing_table, neighbor_table, global_topology,
                           tc_topology, dest_id, now)} :
    /\ routing_table' = r.rt
    /\ global_topology' = r.topo
    /\ tc_topology' = r.legacy
    /\ ansn_seen' = AnsnSeenAfter(ansn_seen, global_topology, r.topo,
                                  node_id, [selectors |-> <<>>], FALSE)
    /\ last' = [op |-> "get_next_hop", dest |-> dest_id, rc |-> r.rc,
                next_hop_id |-> r.next_hop_id, events |-> r.events]
    /\ UNCHANGED <<now, helloVars, sendVars, loopVars, hello_listed,
                   ansn_max_from, duplicate_table, global_ctrl_queue>>

NextNextHop ==
    \/ Tick(NEIGHB_HOLD_TIME)
    \/ Tick(TC_VALIDITY_TIME)
    \/ \E hello \in RouteHelloInputs(TcSender) : ReceiveHello(TcSender, hello)
    \/ \E o \in TcSender..(MaxNode - 1) : ProcessTC(TcSender, RouteTcInput(o))
    \/ CheckNeighborTimeouts
    \/ UpdateRoutingTable
    \/ \E dest_id \in Nodes : GetNextHop(dest_id)

SpecNextHop == Init /\ [][NextNextHop]_vars

\* the planned next hop is live: in the neighbor table and heard from less
\* than NEIGHB_HOLD_TIME ago
NextHopLive(n) ==
    \E i \in 1..Len(neighbor_table) :
        /\ neighbor_table[i].neighbor_id = n
        /\ now - neighbor_table[i].last_seen < NEIGHB_HOLD_TIME

\* dest is a neighbor-table entry or an end of an unexpired topology link
DestKnown(d) ==
    \/ \E i \in 1..Len(neighbor_table) : neighbor_table[i].neighbor_id = d
    \/ \E k \in 1..Len(global_topology) :
           /\ global_topology[k].validity_time > now
           /\ d \in {global_topology[k].from_node, global_topology[k].to_node}

(***************************************************************************)
(* C16: whenever get_next_hop(dest) returns 0 (Route), on the direct path  *)
(* or after its reroute, the returned next hop is a neighbor-table entry   *)
(* with link_status = SYM_LINK and now - last_seen < NEIGHB_HOLD_TIME.     *)
(***************************************************************************)
C16_RouteNextHopIsLiveSymNeighbor ==
    (last.op = "get_next_hop" /\ last.rc = 0) =>
        /\ IsSymNeighbor(last.next_hop_id)
        /\ NextHopLive(last.next_hop_id)

(***************************************************************************)
(* C17: a get_next_hop(dest) call that finds a routing entry whose next    *)
(* hop is not live, with dest neither in the neighbor table nor in any     *)
(* unexpired topology link, returns -2 and emits exactly one notification  *)
(* {dest, failed_next_hop}; a call that returns 1, 0 or -1 emits none.     *)
(***************************************************************************)
C17_UnreachableNotifiesOnce ==
    [][last'.op = "get_next_hop" =>
         /\ (\E i \in 1..Len(routing_table) :
                /\ routing_table[i].dest_id = last'.dest
                /\ \A j \in 1..(i - 1) : routing_table[j].dest_id # last'.dest
                /\ ~NextHopLive(routing_table[i].next_hop_id)
                /\ ~DestKnown(last'.dest)
                /\ last'.dest # node_id)
            => \E i \in 1..Len(routing_table) :
                  /\ routing_table[i].dest_id = last'.dest
                  /\ last'.rc = -2
                  /\ last'.events =
                         <<[dest |-> last'.dest,
                            failed_next_hop |-> routing_table[i].next_hop_id]>>
         /\ last'.rc \in {1, 0, -1} => last'.events = <<>>]_vars

\* a call that returned -2 for a destination that has a routing entry with
\* a dead next hop and is known nowhere, with its one notification
C17_Witness ==
    /\ last.op = "get_next_hop" /\ last.rc = -2
    /\ Len(last.events) = 1
    /\ ~DestKnown(last.dest)
    /\ \E i \in 1..Len(routing_table) :
          /\ routing_table[i].dest_id = last.dest
          /\ ~NextHopLive(routing_table[i].next_hop_id)
          /\ last.events[1].failed_next_hop = routing_table[i].next_hop_id


(***************************************************************************)
(* The timeout scan on tables built from HELLOs that carry TDMA slot       *)
(* reservations and two-hop information.                                   *)
(***************************************************************************)
\* the longest hold time of the protocol, SLOT_RESERVATION_TIMEOUT
MaxTwoHopAge == 30

\* HELLOs of a peer that list this node: two willingness values, with or
\* without a reserved slot, with or without the far node
TimeoutHelloInputs(sender) ==
    {[hello_interval |-> HELLO_INTERVAL, willingness |-> w,
      reserved_slot |-> s,
      neighbors |-> <<[neighbor_id |-> node_id, link_code |-> SYM_LINK]>> \o b,
      two_hop_neighbors |-> <<>>] :
        w \in {WILL_DEFAULT, WILL_ALWAYS},
        s \in {-1, sender},
        b \in {<<>>, <<[neighbor_id |-> MaxNode, link_code |-> SYM_LINK]>>}}

NextTimeout ==
    \/ Tick(HELLO_TIMEOUT + 1)
    \/ Tick(MaxTwoHopAge + 1)
    \/ \E sender \in HelloSenders :
           \E hello \in TimeoutHelloInputs(sender) : ReceiveHello(sender, hello)
    \/ CheckNeighborTimeouts

SpecTimeout == Init /\ [][NextTimeout]_vars

\* the neighbors a scan at time now must keep, and the ids it must remove
ScanKept ==
    SelectSeq(neighbor_table,
              LAMBDA e : now - e.last_hello_time <= HELLO_TIMEOUT)
ScanRemoved ==
    {neighbor_table[i].neighbor_id :
        i \in {j \in 1..Len(neighbor_table) :
                  now - neighbor_table[j].last_hello_time > HELLO_TIMEOUT}}

\* what the scan leaves outside the neighbor table
ScanSideEffects ==
    /\ \A k \in 1..Len(two_hop_table') :
          two_hop_table'[k].one_hop_addr \notin ScanRemoved
    /\ \A k \in 1..Len(neighbor_slots') :
          neighbor_slots'[k].node_id \in ScanRemoved
              => neighbor_slots'[k].reserved_slot < 0
    /\ last'.failed_count = Len(neighbor_table) - Len(ScanKept)
    /\ last'.failed_count = Cardinality(ScanRemoved)

(***************************************************************************)
(* C18 as stated: after check_neighbor_timeouts() at time t the neighbor   *)
(* table is exactly the sequence of prior neighbors with                   *)
(* t - last_hello_time <= HELLO_TIMEOUT, every attribute unchanged and the *)
(* order kept; no two-hop entry goes via a removed neighbor; no removed    *)
(* neighbor's slot is still occupied; the return value is the number of    *)
(* neighbors removed.                                                      *)
(***************************************************************************)
C18_ScanKeepsLiveNeighborsUnchanged ==
    [][last'.op = "check_neighbor_timeouts" =>
          /\ neighbor_table' = ScanKept
          /\ ScanSideEffects]_vars

(***************************************************************************)
(* C18 amended: as above, except that the is_mpr flag of a kept neighbor   *)
(* is the one the MPR recomputation of the scan assigns; every other       *)
(* attribute is unchanged, and a scan that removes nobody leaves the       *)
(* neighbor table as it was.                                               *)
(***************************************************************************)
C18_ScanKeepsLiveNeighborsModuloMpr ==
    [][last'.op = "check_neighbor_timeouts" =>
          /\ Len(neighbor_table') = Len(ScanKept)
          /\ \A i \in 1..Len(ScanKept) :
                [neighbor_table'[i] EXCEPT !.is_mpr = ScanKept[i].is_mpr]
                    = ScanKept[i]
          /\ last'.failed_count = 0 => neighbor_table' = neighbor_table
          /\ \A i \in 1..Len(neighbor_table') :
                neighbor_table'[i].is_mpr
                    = is_mpr(mpr_set', neighbor_table'[i].neighbor_id)
                \/ last'.failed_count = 0
          /\ ScanSideEffects]_vars

\* a scan that removed one neighbor, cleared its slot, and kept a
\* WILL_ALWAYS neighbor whose is_mpr flag it reset
C18_Witness ==
    /\ last.op = "check_neighbor_timeouts"
    /\ last.failed_count = 1
    /\ Len(neighbor_table) = 1
    /\ neighbor_table[1].willingness = WILL_ALWAYS
    /\ ~neighbor_table[1].is_mpr
    /\ \E k \in 1..Len(neighbor_slots) :
          /\ neighbor_slots[k].reserved_slot < 0
          /\ neighbor_slots[k].node_id # neighbor_table[1].neighbor_id


(***************************************************************************)
(* C20, in the form a finite run decides: once a timeout scan has run, a   *)
(* two-hop entry (X via N) that N's latest HELLO did not refresh (N is in  *)
(* the neighbor table with a HELLO newer than the entry, X is not a        *)
(* one-hop neighbor) is not older than MaxTwoHopAge seconds: an entry that *)
(* is no longer advertised ages out of the two-hop table.                  *)
(***************************************************************************)
C20_StaleTwoHopEntryAgesOut ==
    last.op = "check_neighbor_timeouts" =>
        \A k \in 1..Len(two_hop_table) :
            (/\ \E i \in 1..Len(neighbor_table) :
                   /\ neighbor_table[i].neighbor_id = two_hop_table[k].one_hop_addr
                   /\ neighbor_table[i].last_hello_time > two_hop_table[k].last_seen
             /\ FindNeighbor(neighbor_table, two_hop_table[k].neighbor_id) = 0)
            => now - two_hop_table[k].last_seen <= MaxTwoHopAge


(***************************************************************************)
(* The protocol loop init_olsr (src/src/main.c): the prologue and one      *)
(* iteration of while(1), each taken as one step.                          *)
(***************************************************************************)
TC_INTERVAL == 5
MAX_RETRY_ATTEMPTS == 3
RETRY_BASE_INTERVAL == 2
MAX_RETRY_INTERVAL == 16
DUPLICATE_HOLD_TIME == 30
MaxLoopTime == HELLO_TIMEOUT + 1

\* process_retry_queue: messages under retry are rescheduled or dropped
process_retry_queue(queue, t) ==
    LET due(m) == m.retry_count > 0 /\ t >= m.next_retry_time
        kept == SelectSeq(queue, LAMBDA m :
                    ~(due(m) /\ m.retry_count >= MAX_RETRY_ATTEMPTS))
        interval(m) == IF RETRY_BASE_INTERVAL * (2 ^ m.retry_count)
                              > MAX_RETRY_INTERVAL
                       THEN MAX_RETRY_INTERVAL
                       ELSE RETRY_BASE_INTERVAL * (2 ^ m.retry_count)
    IN [i \in 1..Len(kept) |->
           IF due(kept[i])
           THEN [kept[i] EXCEPT !.retry_count = @ + 1,
                                !.next_retry_time = t + interval(kept[i])]
           ELSE kept[i]]

pop_from_control_queue(queue) == IF Len(queue) = 0 THEN queue ELSE Tail(queue)

cleanup_expired_messages(queue, t) ==
    SelectSeq(queue, LAMBDA m : ~(t - m.timestamp > 60
                                  \/ m.retry_count > MAX_RETRY_ATTEMPTS))

cleanup_duplicate_table(dt, t) ==
    SelectSeq(dt, LAMBDA e : t - e.timestamp < DUPLICATE_HOLD_TIME)

\* send_hello_message on sn = [queue, hello, seq]
send_hello_message(sn, nt, th, slots, t) ==
    [queue |-> push_to_control_queue(sn.queue, MSG_HELLO,
                                     [ref |-> "hello_msg_static"], t),
     hello |-> generate_hello_message(nt, th, slots),
     seq |-> (sn.seq + 1) % Uint16]

\* generate_emergency_hello: a HELLO generated and queued at once
generate_emergency_hello(sn, nt, th, slots, t) ==
    [queue |-> push_to_control_queue(sn.queue, MSG_HELLO,
                                     [ref |-> "hello_msg_static"], t),
     hello |-> generate_hello_message(nt, th, slots),
     seq |-> sn.seq]

\* init_olsr up to the loop: timers set to now, first HELLO and TC sent
InitOlsr ==
    \E h \in {send_hello_message([queue |-> <<>>, hello |-> hello_msg_static,
                                  seq |-> message_seq_num],
                                 neighbor_table, two_hop_table,
                                 neighbor_slots, now)} :
    \E r \in {send_tc_message([nt |-> neighbor_table, dt |-> duplicate_table,
                               queue |-> h.queue, seq |-> h.seq,
                               counter |-> ansn_counter, tc |-> tc_msg], now)} :
    /\ ~loop_started
    /\ loop_started' = TRUE
    /\ last_hello_time' = now
    /\ last_tc_time' = now
    /\ last_timeout_check' = now
    /\ last_global_cleanup' = now
    /\ topology_changed' = FALSE
    /\ hello_msg_static' = h.hello
    /\ ctrl_queue' = r.queue
    /\ message_seq_num' = r.seq
    /\ duplicate_table' = r.dt
    /\ ansn_counter' = r.counter
    /\ tc_msg' = r.tc
    /\ last' = [op |-> "init_olsr"]
    /\ UNCHANGED <<now, helloVars, global_topology, tc_topology, routing_table,
                   global_ctrl_queue, control_queue, rrcVars, hello_listed,
                   ansn_seen,
                   ansn_max_from>>

\* one iteration of while(1)
LoopIteration ==
    LET scan_due == now - last_timeout_check >= 1
        hello_due == now - last_hello_time >= HELLO_INTERVAL
        tc_due == now - last_tc_time >= TC_INTERVAL
        cleanup_due == now - last_global_cleanup >= 30
    IN
    \* 1. neighbor timeouts and the emergency HELLO
    \E c \in {IF scan_due
              THEN check_neighbor_timeouts(neighbor_table, two_hop_table,
                                           mpr_set, neighbor_slots, now)
              ELSE [nt |-> neighbor_table, th |-> two_hop_table,
                    mpr |-> mpr_set, slots |-> neighbor_slots,
                    failed_count |-> 0]} :
    \E e \in {IF c.failed_count > 0
              THEN generate_emergency_hello(
                       [queue |-> ctrl_queue, hello |-> hello_msg_static,
                        seq |-> message_seq_num], c.nt, c.th, c.slots, now)
              ELSE [queue |-> ctrl_queue, hello |-> hello_msg_static,
                    seq |-> message_seq_num]} :
    \* 2. retries, 3. the regular HELLO
    \E h \in {IF hello_due
              THEN send_hello_message([e EXCEPT !.queue =
                                          process_retry_queue(e.queue, now)],
                                      c.nt, c.th, c.slots, now)
              ELSE [e EXCEPT !.queue = process_retry_queue(e.queue, now)]} :
    \* 4. the regular TC
    \E s \in {IF tc_due
              THEN send_tc_message([nt |-> c.nt, dt |-> duplicate_table,
                                    queue |-> h.queue, seq |-> h.seq,
                                    counter |-> ansn_counter, tc |-> tc_msg],
                                   now)
              ELSE [nt |-> c.nt, dt |-> duplicate_table, queue |-> h.queue,
                    seq |-> h.seq, counter |-> ansn_counter, tc |-> tc_msg]} :
    \* 5. one message leaves the queue, 6. global maintenance
    \E g \in {IF cleanup_due
              THEN [queue |-> cleanup_expired_messages(
                                  pop_from_control_queue(s.queue), now),
                    dt |-> cleanup_duplicate_table(s.dt, now),
                    topo |-> cleanup_topology_links(global_topology, now)]
              ELSE [queue |-> pop_from_control_queue(s.queue), dt |-> s.dt,
                    topo |-> global_topology]} :
    \* 7. routing update when the flag is set
    \E changed \in {topology_changed \/ c.failed_count > 0
                    \/ Len(g.topo) < Len(global_topology)} :
    \E u \in {IF changed
              THEN update_routing_table(c.nt, g.topo, tc_topology, now)
              ELSE [rt |-> routing_table, topo |-> g.topo,
                    legacy |-> tc_topology]} :
    /\ loop_started
    /\ neighbor_table' = c.nt
    /\ two_hop_table' = c.th
    /\ mpr_set' = c.mpr
    /\ neighbor_slots' = c.slots
    /\ hello_msg_static' = h.hello
    /\ message_seq_num' = s.seq
    /\ ansn_counter' = s.counter
    /\ tc_msg' = s.tc
    /\ ctrl_queue' = g.queue
    /\ duplicate_table' = g.dt
    /\ global_topology' = u.topo
    /\ tc_topology' = u.legacy
    /\ routing_table' = u.rt
    /\ topology_changed' = FALSE
    /\ last_timeout_check' = IF scan_due THEN now ELSE last_timeout_check
    /\ last_hello_time' = IF hello_due THEN now ELSE last_hello_time
    /\ last_tc_time' = IF tc_due THEN now ELSE last_tc_time
    /\ last_global_cleanup' = IF cleanup_due THEN now ELSE last_global_cleanup
    /\ ansn_seen' = AnsnSeenAfter(ansn_seen, global_topology, u.topo,
                                  node_id, [selectors |-> <<>>], FALSE)
    /\ last' = [op |-> "loop_iteration", failed_count |-> c.failed_count,
                emergency_hello |-> c.failed_count > 0,
                expired_links |-> Len(global_topology) - Len(g.topo),
                recomputed |-> changed,
                out_msg |-> IF Len(s.queue) = 0 THEN <<>>
                            ELSE <<Head(s.queue)>>]
    /\ UNCHANGED <<now, loop_started, global_ctrl_queue, control_queue, rrcVars,
                   hello_listed, ansn_max_from>>

\* usleep and whatever else lets time(NULL) advance, to the instant t
Sleep(t) ==
    /\ t > now
    /\ now' = t
    /\ last' = [op |-> "tick"]
    /\ UNCHANGED <<helloVars, tcVars, sendVars, loopVars, hello_listed,
                   ansn_seen, ansn_max_from>>

\* the instants at which the loop and the handlers read the clock
LoopTimes == {0, HELLO_TIMEOUT, MaxLoopTime}

NextLoop ==
    \/ InitOlsr
    \/ LoopIteration
    \/ \E t \in LoopTimes : loop_started /\ Sleep(t)
    \/ \E hello \in RouteHelloInputs(TcSender) :
           loop_started /\ ReceiveHello(TcSender, hello)
    \/ \E m \in {RouteTcInput(TcSender), SelfTcInput(1)} :
           loop_started /\ ProcessTC(TcSender, m)

SpecLoop == Init /\ [][NextLoop]_vars

(***************************************************************************)
(* C14: a HELLO that makes its sender a SYM neighbor triggers a routing    *)
(* update: at the end of a loop iteration in which no timeout and no       *)
(* cleanup removed anything, the routing table holds, for every SYM        *)
(* neighbor, an entry with hops = 1 and next_hop_id = the neighbor.        *)
(***************************************************************************)
C14_SymNeighborGetsOneHopRoute ==
    (/\ last.op = "loop_iteration"
     /\ last.failed_count = 0
     /\ last.expired_links = 0)
    => \A n \in Others :
           IsSymNeighbor(n) =>
               \E i \in 1..Len(routing_table) :
                   /\ routing_table[i].dest_id = n
                   /\ routing_table[i].hops = 1
                   /\ routing_table[i].next_hop_id = n

(***************************************************************************)
(* C19: in a loop iteration whose timeout scan removes at least one        *)
(* neighbor an emergency HELLO is enqueued whatever the HELLO interval,    *)
(* the routing table is recomputed, and when the iteration ends no routing *)
(* entry has a removed neighbor as next hop and topology_changed is clear. *)
(***************************************************************************)
C19_TimeoutIterationRepairsRoutes ==
    [][(/\ last'.op = "loop_iteration"
        /\ now - last_timeout_check >= 1
        /\ ScanRemoved # {})
       => /\ last'.emergency_hello
          /\ last'.recomputed
          /\ \A i \in 1..Len(routing_table') :
                routing_table'[i].next_hop_id \notin ScanRemoved
          /\ ~topology_changed']_vars


(***************************************************************************)
(* C21: after process_hello_message for a sender that is then in the       *)
(* neighbor table, the sender's is_mpr_selector flag is true if and only   *)
(* if that HELLO lists this node with link_code MPR_NEIGH; so a later      *)
(* HELLO of the sender without such a listing clears the flag.             *)
(***************************************************************************)
C21_MprSelectorIffListedAsMpr ==
    [][\A sender \in HelloSenders :
         \A hello \in HelloInputs(sender, {WILL_DEFAULT}) :
            ReceiveHello(sender, hello) =>
               \A i \in 1..Len(neighbor_table') :
                  neighbor_table'[i].neighbor_id = sender =>
                     (neighbor_table'[i].is_mpr_selector
                        <=> \E k \in 1..Len(hello.neighbors) :
                               /\ hello.neighbors[k].neighbor_id = node_id
                               /\ hello.neighbors[k].link_code = MPR_NEIGH)]_vars

\* after a HELLO, one neighbor is an MPR selector and another, whose last
\* HELLO listed this node without MPR_NEIGH, is not
C21_Witness ==
    /\ last.op = "receive_hello"
    /\ \E i, j \in 1..Len(neighbor_table) :
          /\ neighbor_table[i].is_mpr_selector
          /\ ~neighbor_table[j].is_mpr_selector
          /\ hello_listed[neighbor_table[j].neighbor_id] = "listed"


(***************************************************************************)
(* C22: send_tc_message enqueues a TC only when some neighbor is SYM with  *)
(* is_mpr_selector set; when there is none the control queue, the ANSN     *)
(* counter, the message sequence counter and the Duplicate Set are         *)
(* unchanged; when it transmits, the selector list of the TC is exactly    *)
(* the set of SYM neighbors with is_mpr_selector and (node_id, seq) is in  *)
(* the Duplicate Set.                                                      *)
(***************************************************************************)
C22_SendTcFrame ==
    [][last'.op = "send_tc" =>
         LET sel == {neighbor_table[i].neighbor_id :
                        i \in {j \in 1..Len(neighbor_table) :
                                  /\ neighbor_table[j].link_status = SYM_LINK
                                  /\ neighbor_table[j].is_mpr_selector}}
         IN IF sel = {}
            THEN UNCHANGED <<ctrl_queue, ansn_counter, message_seq_num,
                             duplicate_table>>
            ELSE /\ Len(ctrl_queue') = Len(ctrl_queue) + 1
                 /\ ctrl_queue'[Len(ctrl_queue')].msg_type = MSG_TC
                 /\ Len(tc_msg'.selectors) = Cardinality(sel)
                 /\ {tc_msg'.selectors[i] : i \in 1..Len(tc_msg'.selectors)} = sel
                 /\ is_duplicate_message(duplicate_table', node_id,
                                         message_seq_num')]_vars


(***************************************************************************)
(* C23.  A TC enqueued for forwarding carries, as the transport sees it    *)
(* when the queued message is drained, the received originator and         *)
(* sequence number, a ttl one less than the received ttl and a hop_count   *)
(* one greater than the received hop_count: whenever process_tc_message    *)
(* appends an entry to the global control queue, that entry (a struct      *)
(* control_message and the TC body its message_ptr refers to) holds these  *)
(* four header values.                                                     *)
(***************************************************************************)
C23_ForwardedTcCarriesHeader ==
    [][\A m \in TcInputs :
          (ProcessTC(TcSender, m)
             /\ Len(global_ctrl_queue') = Len(global_ctrl_queue) + 1) =>
          LET e == global_ctrl_queue'[Len(global_ctrl_queue')]
              carried == [f \in (DOMAIN e \cup DOMAIN e.message_ptr.body) |->
                             IF f \in DOMAIN e THEN e[f]
                             ELSE e.message_ptr.body[f]]
          IN /\ {"originator", "msg_seq_num", "ttl", "hop_count"}
                   \subseteq DOMAIN carried
             /\ carried["originator"] = m.originator
             /\ carried["msg_seq_num"] = m.seq_num
             /\ carried["ttl"] = m.ttl - 1
             /\ carried["hop_count"] = m.hop_count + 1]_vars


(***************************************************************************)
(* receive_control_message for every message kind, and the messages that   *)
(* validate_olsr_message rejects.                                          *)
(***************************************************************************)
MSG_VOICE == 101

\* receive_control_message(message_ptr, msg_type, sender_id, originator_id,
\* seq_num, ttl, hop_count); a NULL message_ptr is [null |-> TRUE]
ReceiveControlMessage(message_ptr, msg_type, sender_id, originator_id, seq_num, ttl, hop_count) ==
    IF message_ptr.null
    THEN /\ last' = [op |-> "receive_control_message", ret |-> -1]
         /\ UNCHANGED <<now, helloVars, tcVars, sendVars, loopVars, hello_listed,
                        ansn_seen, ansn_max_from>>
    ELSE IF msg_type = MSG_HELLO
    THEN ReceiveHello(sender_id, [f \in DOMAIN message_ptr \ {"null"} |->
                                     message_ptr[f]])
    ELSE IF msg_type = MSG_TC
    THEN ReceiveTC(sender_id, [originator |-> originator_id, seq_num |-> seq_num,
                               ttl |-> ttl, hop_count |-> hop_count,
                               body |-> message_ptr])
    ELSE \* the duplicate check and the duplicate entry come before the
         \* dispatch on msg_type
         \E dup \in {is_duplicate_message(duplicate_table, originator_id, seq_num)} :
         /\ duplicate_table' = IF dup THEN duplicate_table
                               ELSE add_duplicate_entry(duplicate_table,
                                                        originator_id, seq_num, now)
         /\ last' = [op |-> "receive_control_message",
                     ret |-> IF dup THEN 0 ELSE -1]
         /\ UNCHANGED <<now, helloVars, global_topology, tc_topology,
                        routing_table, global_ctrl_queue, sendVars, loopVars,
                        hello_listed, ansn_seen, ansn_max_from>>

\* validate_olsr_message, on the fields receive_control_message is given
\* (msg_size is not among them)
validate_olsr_message(msg_type, ttl) ==
    /\ msg_type \in {MSG_HELLO, MSG_TC}
    /\ ttl # 0

NullPtr == [null |-> TRUE]
\* calls of receive_control_message: the TCs on the air, each also with
\* ttl 0; a message of a kind that is neither HELLO nor TC; a NULL pointer;
\* a HELLO of the TC sender
RecvInputs ==
    {[message_ptr |-> m.body, msg_type |-> k, originator_id |-> m.originator,
      seq_num |-> m.seq_num, ttl |-> IF z THEN 0 ELSE m.ttl,
      hop_count |-> m.hop_count] :
        m \in TcInputs, k \in {MSG_TC, MSG_VOICE}, z \in BOOLEAN}
    \cup {[message_ptr |-> NullPtr, msg_type |-> MSG_TC,
           originator_id |-> TcOriginator, seq_num |-> 1, ttl |-> 2,
           hop_count |-> 1]}
    \cup {[message_ptr |-> [null |-> FALSE] @@ h, msg_type |-> MSG_HELLO,
           originator_id |-> TcSender, seq_num |-> 1, ttl |-> 1,
           hop_count |-> 0] : h \in TcHelloInputs}
\* calls of process_tc_message: the TCs on the air, each also with ttl 0 and
\* with a NULL body
ProcessTcInputs ==
    {[originator |-> m.originator, seq_num |-> m.seq_num,
      ttl |-> IF z THEN 0 ELSE m.ttl, hop_count |-> m.hop_count,
      body |-> [m.body EXCEPT !.null = n]] :
        m \in TcInputs, z \in BOOLEAN, n \in BOOLEAN}

NextRecv ==
    \/ Tick(TC_VALIDITY_TIME)
    \/ \E c \in RecvInputs :
          ReceiveControlMessage(c.message_ptr, c.msg_type, TcSender,
                                c.originator_id, c.seq_num, c.ttl, c.hop_count)
    \/ \E m \in ProcessTcInputs : ProcessTC(TcSender, m)

SpecRecv == Init /\ [][NextRecv]_vars


(***************************************************************************)
(* C24.  A received message that is invalid (a kind that is neither HELLO  *)
(* nor TC, ttl = 0, or a null payload) is discarded with no state          *)
(* mutation: the step of receive_control_message or process_tc_message     *)
(* that handles it leaves the neighbor table, the Duplicate Set, the       *)
(* topology database, the routing table and the control queue unchanged.   *)
(***************************************************************************)
C24_InvalidMessageDiscarded ==
    [][/\ \A c \in RecvInputs :
            (/\ ReceiveControlMessage(c.message_ptr, c.msg_type, TcSender,
                                      c.originator_id, c.seq_num, c.ttl,
                                      c.hop_count)
             /\ \/ c.message_ptr.null
                \/ ~validate_olsr_message(c.msg_type, c.ttl))
            => UNCHANGED <<neighbor_table, duplicate_table, global_topology,
                           tc_topology, routing_table, global_ctrl_queue>>
       /\ \A m \in ProcessTcInputs :
            (ProcessTC(TcSender, m) /\ (m.body.null \/ m.ttl = 0))
            => UNCHANGED <<neighbor_table, duplicate_table, global_topology,
                           tc_topology, routing_table, global_ctrl_queue>>]_vars


(***************************************************************************)
(* The control queue as the linked list of src/unnamed/part_006: nodes     *)
(* allocated with malloc, linked through next, with head, tail and count.  *)
(***************************************************************************)
MaxPush == 4

\* malloc: the addresses it can return (none: malloc returns NULL)
malloc_node(q) ==
    LET free_addrs == (1..MaxHeap) \ DOMAIN q.mem
    IN IF free_addrs = {} THEN {}
       ELSE {CHOOSE a \in free_addrs : \A b \in free_addrs : a <= b}

\* free(node)
free_node(mem, a) == [b \in DOMAIN mem \ {a} |-> mem[b]]

\* a variant of the list insertion that links the new node before the head
prepend_node(q, a, node) ==
    IF q.tail = 0
    THEN [head |-> a, tail |-> a, count |-> q.count + 1,
          mem |-> (a :> node) @@ q.mem]
    ELSE [head |-> a, tail |-> q.tail, count |-> q.count + 1,
          mem |-> (a :> [node EXCEPT !.next = q.head]) @@ q.mem]

\* "Add to linked list (append at tail)" and queue->count++
append_node(q, a, node) ==
    IF q.tail = 0
    THEN [head |-> a, tail |-> a, count |-> q.count + 1,
          mem |-> (a :> node) @@ q.mem]
    ELSE [head |-> q.head, tail |-> a, count |-> q.count + 1,
          mem |-> (a :> node) @@ [q.mem EXCEPT ![q.tail].next = a]]

\* the part of a removal that process_retry_queue and
\* cleanup_expired_messages share: unlink current, fix tail, count--, free
unlink_node(q, current, prev) ==
    LET next == q.mem[current].next
        mem1 == IF prev = 0 THEN q.mem ELSE [q.mem EXCEPT ![prev].next = next]
    IN [head  |-> IF prev = 0 THEN next ELSE q.head,
        tail  |-> IF current = q.tail THEN prev ELSE q.tail,
        count |-> q.count - 1,
        mem   |-> free_node(mem1, current)]

\* the while loop of process_retry_queue; returns the queue and
\* processed_count
RECURSIVE retry_walk(_, _, _, _, _)
retry_walk(q, current, prev, t, processed_count) ==
    IF current = 0 THEN [q |-> q, ret |-> processed_count]
    ELSE LET node == q.mem[current]
             next == node.next
             shifted == RETRY_BASE_INTERVAL * (2 ^ node.retry_count)
             retry_interval == IF shifted > MAX_RETRY_INTERVAL
                               THEN MAX_RETRY_INTERVAL ELSE shifted
         IN IF node.retry_count > 0 /\ t >= node.next_retry_time
            THEN IF node.retry_count >= MAX_RETRY_ATTEMPTS
                 THEN retry_walk(unlink_node(q, current, prev), next, prev, t,
                                 processed_count)
                 ELSE retry_walk(
                         [q EXCEPT !.mem[current].retry_count = @ + 1,
                                   !.mem[current].next_retry_time =
                                        t + retry_interval],
                         next, current, t, processed_count + 1)
            ELSE retry_walk(q, next, current, t, processed_count)

\* the while loop of cleanup_expired_messages; returns the queue and
\* cleaned_count
RECURSIVE cleanup_walk(_, _, _, _, _)
cleanup_walk(q, current, prev, t, cleaned_count) ==
    IF current = 0 THEN [q |-> q, ret |-> cleaned_count]
    ELSE LET node == q.mem[current]
             next == node.next
             should_remove == \/ t - node.timestamp > 60
                              \/ node.retry_count > MAX_RETRY_ATTEMPTS
         IN IF should_remove
            THEN cleanup_walk(unlink_node(q, current, prev), next, prev, t,
                              cleaned_count + 1)
            ELSE cleanup_walk(q, next, current, t, cleaned_count)

\* the nodes reachable from head, in list order
RECURSIVE ChainFrom(_, _, _)
ChainFrom(mem, a, fuel) ==
    IF a = 0 \/ fuel = 0 THEN <<>>
    ELSE <<a>> \o ChainFrom(mem, mem[a].next, fuel - 1)
Chain(q) == ChainFrom(q.mem, q.head, MaxHeap + 1)
QueuedPtrs(q) == [i \in 1..Len(Chain(q)) |-> q.mem[Chain(q)[i]].message_ptr]

\* The callers pass a pointer to a message of their own; the messages are
\* numbered in the order of the calls, 0 is the NULL pointer.
NextPtr(q) ==
    LET c == Chain(q)
    IN IF c = <<>> THEN 1 ELSE 1 + q.mem[c[Len(c)]].message_ptr

QueueUnchanged ==
    UNCHANGED <<now, helloVars, tcVars, sendVars, timerVars, rrcVars, hello_listed,
                ansn_seen, ansn_max_from>>

\* push_to_control_queue(&queue, msg_type, message_ptr)
PushToControlQueue(msg_type, message_ptr) ==
    /\ IF message_ptr = 0 \/ malloc_node(control_queue) = {}
       THEN /\ control_queue' = control_queue
            /\ last' = [op |-> "push", ret |-> -1]
       ELSE \E a \in malloc_node(control_queue) :
            /\ control_queue' =
                  append_node(control_queue, a,
                      [msg_type |-> msg_type, timestamp |-> now,
                       next_retry_time |-> 0, retry_count |-> 0,
                       destination_id |-> 0, message_ptr |-> message_ptr,
                       next |-> 0])
            /\ last' = [op |-> "push", ret |-> 0]
    /\ QueueUnchanged

\* add_message_with_retry(&queue, msg_type, message_ptr, destination_id)
AddMessageWithRetry(msg_type, message_ptr, destination_id) ==
    /\ IF message_ptr = 0 \/ malloc_node(control_queue) = {}
       THEN /\ control_queue' = control_queue
            /\ last' = [op |-> "add_message_with_retry", ret |-> -1]
       ELSE \E a \in malloc_node(control_queue) :
            /\ control_queue' =
                  append_node(control_queue, a,
                      [msg_type |-> msg_type, timestamp |-> now,
                       next_retry_time |-> now + RETRY_BASE_INTERVAL,
                       retry_count |-> 0, destination_id |-> destination_id,
                       message_ptr |-> message_ptr, next |-> 0])
            /\ last' = [op |-> "add_message_with_retry", ret |-> 0]
    /\ QueueUnchanged

\* pop_from_control_queue(&queue, &out_msg)
PopFromControlQueue ==
    /\ IF control_queue.count = 0 \/ control_queue.head = 0
       THEN /\ control_queue' = control_queue
            /\ last' = [op |-> "pop", ret |-> -1]
       ELSE LET node == control_queue.mem[control_queue.head] IN
            /\ control_queue' =
                  [head  |-> node.next,
                   tail  |-> IF node.next = 0 THEN 0 ELSE control_queue.tail,
                   count |-> control_queue.count - 1,
                   mem   |-> free_node(control_queue.mem, control_queue.head)]
            /\ last' = [op |-> "pop", ret |-> 0, out_msg |-> node]
    /\ QueueUnchanged

\* process_retry_queue(&queue)
ProcessRetryQueue ==
    /\ \E r \in {IF control_queue.count = 0 \/ control_queue.head = 0
                 THEN [q |-> control_queue, ret |-> 0]
                 ELSE retry_walk(control_queue, control_queue.head, 0, now, 0)} :
          /\ control_queue' = r.q
          /\ last' = [op |-> "process_retry_queue", ret |-> r.ret]
    /\ QueueUnchanged

\* cleanup_expired_messages(&queue)
CleanupExpiredMessages ==
    /\ \E r \in {IF control_queue.count = 0 \/ control_queue.head = 0
                 THEN [q |-> control_queue, ret |-> 0]
                 ELSE cleanup_walk(control_queue, control_queue.head, 0, now, 0)} :
          /\ control_queue' = r.q
          /\ last' = [op |-> "cleanup_expired_messages", ret |-> r.ret]
    /\ QueueUnchanged

\* the instants at which the queue operations read the clock: a first
\* retry is due at RETRY_BASE_INTERVAL, a message is too old after 60 s
QueueTimes == {RETRY_BASE_INTERVAL, 60 + 1, 60 + 1 + RETRY_BASE_INTERVAL}
QueuePtrs(q) == {p \in {0, NextPtr(q)} : p <= MaxPush}

NextQueue ==
    \/ \E t \in QueueTimes : Sleep(t)
    \/ \E k \in {MSG_HELLO, MSG_TC}, p \in QueuePtrs(control_queue) :
          PushToControlQueue(k, p)
    \/ \E p \in QueuePtrs(control_queue), d \in {TcSender} :
          AddMessageWithRetry(MSG_TC, p, d)
    \/ PopFromControlQueue
    \/ ProcessRetryQueue
    \/ CleanupExpiredMessages

SpecQueue == Init /\ [][NextQueue]_vars


(***************************************************************************)
(* C25.  For any interleaving of push, pop, process_retry and              *)
(* cleanup_expired on the control queue: the surviving messages are popped *)
(* in the order they were pushed (the list holds the messages in push      *)
(* order, no step reorders the messages it keeps, and a pop returns and    *)
(* removes the first of them); the queue count always equals the number of *)
(* queued messages; and a pop on an empty queue returns -1 (Empty) without *)
(* changing the queue.                                                     *)
(***************************************************************************)
C25_QueueFifoAndCount ==
    /\ [](/\ control_queue.count = Len(Chain(control_queue))
          /\ \A i, j \in 1..Len(Chain(control_queue)) :
                i < j => QueuedPtrs(control_queue)[i] < QueuedPtrs(control_queue)[j])
    /\ [][/\ \* the messages a step keeps stay in their order
             \A i, j \in 1..Len(Chain(control_queue)) :
                (/\ i < j
                 /\ last'.op \in {"pop", "process_retry_queue",
                                  "cleanup_expired_messages"}
                 /\ Chain(control_queue)[i] \in DOMAIN control_queue'.mem
                 /\ Chain(control_queue)[j] \in DOMAIN control_queue'.mem)
                => \E k, l \in 1..Len(Chain(control_queue')) :
                      /\ k < l
                      /\ Chain(control_queue')[k] = Chain(control_queue)[i]
                      /\ Chain(control_queue')[l] = Chain(control_queue)[j]
          /\ (last'.op = "pop" /\ Len(Chain(control_queue)) > 0)
                => /\ last'.ret = 0
                   /\ last'.out_msg.message_ptr = QueuedPtrs(control_queue)[1]
                   /\ QueuedPtrs(control_queue') = Tail(QueuedPtrs(control_queue))
          /\ (last'.op = "pop" /\ Len(Chain(control_queue)) = 0)
                => /\ last'.ret = -1
                   /\ control_queue' = control_queue]_vars

\* a pop that returned the second of two messages pushed at different
\* times, after the cleanup removed a message and while one is still queued
C25_Witness ==
    /\ last.op = "pop"
    /\ last.ret = 0
    /\ last.out_msg.message_ptr >= 2
    /\ last.out_msg.timestamp > 0
    /\ now - last.out_msg.timestamp > 60
    /\ control_queue.count >= 1


\* pushes only, up to the exhaustion of the heap, at two instants
NextQueueFull ==
    \/ Sleep(RETRY_BASE_INTERVAL)
    \/ \E p \in {NextPtr(control_queue)} : PushToControlQueue(MSG_TC, p)

SpecQueueFull == Init /\ [][NextQueueFull]_vars


(***************************************************************************)
(* C26.  The control queue never holds more than MAX_QUEUE_SIZE messages:  *)
(* a push when it already holds MAX_QUEUE_SIZE messages returns the        *)
(* non-fatal Full error (-1) and leaves the queue unchanged.               *)
(***************************************************************************)
C26_QueueNeverExceedsMaxSize ==
    /\ [](Len(Chain(control_queue)) <= MAX_QUEUE_SIZE)
    /\ [][(last'.op = "push" /\ Len(Chain(control_queue)) = MAX_QUEUE_SIZE)
             => /\ last'.ret = -1
                /\ control_queue' = control_queue]_vars


(***************************************************************************)
(* C27.  A message enqueued with add_message_with_retry that is not        *)
(* dequeued is retried on a time trigger: at a process_retry_queue pass    *)
(* with now >= next_retry_time, a queued message that was enqueued with    *)
(* retry (its next_retry_time is set) has its retry_count advanced and its *)
(* next retry rescheduled after now or, once its retry attempts are        *)
(* exhausted, is dropped from the queue.                                   *)
(***************************************************************************)
C27_RetryOnTimeTrigger ==
    [][last'.op = "process_retry_queue" =>
         \A a \in DOMAIN control_queue.mem :
            (/\ control_queue.mem[a].next_retry_time # 0
             /\ now >= control_queue.mem[a].next_retry_time)
            => IF control_queue.mem[a].retry_count >= MAX_RETRY_ATTEMPTS
               THEN a \notin DOMAIN control_queue'.mem
               ELSE /\ a \in DOMAIN control_queue'.mem
                    /\ control_queue'.mem[a].retry_count =
                          control_queue.mem[a].retry_count + 1
                    /\ control_queue'.mem[a].next_retry_time > now]_vars


(***************************************************************************)
(* C28.  The payload that a queued HELLO or TC delivers to the transport   *)
(* when it is dequeued equals the snapshot of state taken when that        *)
(* message was generated, even if further HELLO/TC generations or table    *)
(* changes happened while it was queued: no step changes the payload that  *)
(* the message_ptr of a queued message refers to, neither for a message    *)
(* the step keeps in the queue nor for the one it pops and delivers.       *)
(***************************************************************************)
\* what the transport reads through message_ptr
QueuedPayload(e, hello_buf, tc_buf) ==
    IF e.message_ptr.ref = "hello_msg_static" THEN hello_buf
    ELSE IF e.message_ptr.ref = "tc_msg" THEN tc_buf
    ELSE e.message_ptr.body

IsPrefix(a, b) == Len(a) <= Len(b) /\ SubSeq(b, 1, Len(a)) = a

\* the messages of the queue that the step keeps queued or pops from the
\* head; the pop of the protocol loop comes after the generations
KeptOrPopped(before, after) ==
    IF IsPrefix(before, after) THEN before
    ELSE IF before # <<>> /\ IsPrefix(Tail(before), after) THEN before
    ELSE <<>>

FullSenders == Others \cup {ExtraNode}
FullHelloInputs(sender) ==
    {[hello_interval |-> HELLO_INTERVAL, willingness |-> WILL_DEFAULT,
      reserved_slot |-> -1, neighbors |-> a \o b, two_hop_neighbors |-> <<>>] :
        a \in {<<>>, <<[neighbor_id |-> node_id, link_code |-> SYM_LINK]>>},
        b \in {<<>>} \cup
              {<<[neighbor_id |-> MaxNode, link_code |-> SYM_LINK]>> :
                  x \in {sender} \cap {TcSender}}}

NextFull ==
    \/ Tick(HELLO_INTERVAL)
    \/ \E sender \in FullSenders :
          \E hello \in FullHelloInputs(sender) : ReceiveHello(sender, hello)

SpecFull == Init /\ [][NextFull]_vars


(***************************************************************************)
(* C29.  When the neighbor table holds MAX_NEIGHBORS entries and a HELLO   *)
(* arrives from a sender that is not in the table, the new neighbor is     *)
(* rejected, and every existing neighbor entry (id, link_status,           *)
(* willingness, timestamps, MPR flags) and neighbor_count are unchanged.   *)
(***************************************************************************)
C29_FullTableRejectsNewNeighbor ==
    [][\A sender \in FullSenders :
          \A hello \in FullHelloInputs(sender) :
             (/\ Len(neighbor_table) = MaxNeighbors
              /\ FindNeighbor(neighbor_table, sender) = 0
              /\ ReceiveHello(sender, hello))
             => neighbor_table' = neighbor_table]_vars

\* the table is full, a HELLO has just been processed, and a peer whose
\* HELLO listed this node has no entry (no step of SpecFull removes one)
C29_Witness ==
    /\ last.op = "receive_hello"
    /\ Len(neighbor_table) = MaxNeighbors
    /\ \E s \in FullSenders :
          /\ hello_listed[s] = "listed"
          /\ FindNeighbor(neighbor_table, s) = 0
    /\ \E i \in 1..Len(neighbor_table) : neighbor_table[i].is_mpr
    /\ \E i \in 1..Len(neighbor_table) : now > neighbor_table[i].last_seen


(***************************************************************************)
(* HELLOs that carry TDMA information: the sender's reserved slot and the  *)
(* slots of the sender's own neighbors, which are nodes this node may      *)
(* never hear directly.                                                    *)
(***************************************************************************)
FarSlots ==
    [k \in 1..MaxSlots |->
        [two_hop_id |-> MaxNode + k, via_neighbor_id |-> 0, reserved_slot |-> k]]
IdemHelloInputs(sender) ==
    {[hello_interval |-> HELLO_INTERVAL, willingness |-> WILL_DEFAULT,
      reserved_slot |-> s, neighbors |-> a \o b, two_hop_neighbors |-> f] :
        s \in {-1, sender},
        a \in {<<>>, <<[neighbor_id |-> node_id, link_code |-> SYM_LINK]>>},
        b \in {<<>>, <<[neighbor_id |-> MaxNode, link_code |-> SYM_LINK]>>},
        f \in {<<>>, SubSeq(FarSlots, 1, 1), FarSlots}}

NextIdem ==
    \/ Tick(SLOT_RESERVATION_TIMEOUT + 1)
    \/ \E sender \in HelloSenders :
          \E hello \in IdemHelloInputs(sender) : ReceiveHello(sender, hello)

SpecIdem == Init /\ [][NextIdem]_vars

\* the tables without their timestamps
NoStampNeighbors(nt) ==
    [i \in 1..Len(nt) |-> [nt[i] EXCEPT !.last_seen = 0, !.last_hello_time = 0]]
NoStampTwoHop(th) == [i \in 1..Len(th) |-> [th[i] EXCEPT !.last_seen = 0]]
NoStampSlots(slots) == [i \in 1..Len(slots) |-> [slots[i] EXCEPT !.last_updated = 0]]


(***************************************************************************)
(* C30.  Processing the same HELLO from the same sender twice in           *)
(* succession yields the same Neighbor, TwoHop, TDMA, MprSet and           *)
(* MPR-selector state as processing it once, except for timestamps: in the *)
(* state a process_hello_message step leaves, processing the same HELLO    *)
(* again changes nothing but timestamps.                                   *)
(***************************************************************************)
C30_HelloIdempotent ==
    [][\A sender \in HelloSenders :
          \A hello \in IdemHelloInputs(sender) :
             ReceiveHello(sender, hello) =>
                \E r \in {process_hello_message(neighbor_table', two_hop_table',
                              neighbor_slots', hello, sender, now')} :
                   /\ NoStampNeighbors(r.nt) = NoStampNeighbors(neighbor_table')
                   /\ NoStampTwoHop(r.th) = NoStampTwoHop(two_hop_table')
                   /\ NoStampSlots(r.slots) = NoStampSlots(neighbor_slots')
                   /\ r.mpr = mpr_set']_vars


(***************************************************************************)
(* C31.  process_tc_message enqueues a forwarded copy of a TC if and only  *)
(* if the TC is not a duplicate, the sender is a neighbor with             *)
(* is_mpr_selector set and link_status = SYM, and the received ttl > 1; in *)
(* every other case nothing is enqueued.                                   *)
(***************************************************************************)
ForwardCondition(m) ==
    /\ ~is_duplicate_message(duplicate_table, m.originator, m.seq_num)
    /\ \E i \in 1..Len(neighbor_table) :
          /\ neighbor_table[i].neighbor_id = TcSender
          /\ neighbor_table[i].is_mpr_selector
          /\ neighbor_table[i].link_status = SYM_LINK
    /\ m.ttl > 1

MprBeforeGreedy(nt, th) ==
    MprStepOnlyPath(
        MprStepAlways(
            MprState([i \in 1..Len(nt) |-> [nt[i] EXCEPT !.is_mpr = FALSE]],
                     <<>>, {}), th, 1), th, 1)

\* the two-hop ids no neighbor selected so far reaches
UncoveredIds(st, th) ==
    {th[i].neighbor_id : i \in 1..Len(th)} \
        {th[i].neighbor_id : i \in {j \in 1..Len(th) :
                                       is_mpr(st.mpr, th[j].one_hop_addr)}}

\* for every neighbor the loop selects, in order, the still-uncovered
\* two-hop ids it reaches
RECURSIVE GreedyGains(_, _)
GreedyGains(st, th) ==
    IF \A i \in 1..Len(th) : i \in st.covered THEN <<>>
    ELSE LET best == MprBestNeighbor(st, th, 1,
                         [idx |-> 0, cov |-> 0, will |-> -1]) IN
         IF best.idx = 0 THEN <<>>
         ELSE <<[id |-> st.nt[best.idx].neighbor_id,
                 gain |-> {x \in UncoveredIds(st, th) :
                              \E k \in 1..Len(th) :
                                 /\ th[k].neighbor_id = x
                                 /\ th[k].one_hop_addr =
                                        st.nt[best.idx].neighbor_id}]>>
              \o GreedyGains(SelectMpr(st, th, best.idx), th)

C32_GreedyAddsOnlyCoveringNeighbor ==
    [][last'.op = "calculate_mpr_set" /\ Len(two_hop_table) > 0 =>
          \A g \in {GreedyGains(MprBeforeGreedy(neighbor_table, two_hop_table),
                                two_hop_table)} :
             /\ \A k \in 1..Len(g) : g[k].gain # {}
             /\ Len(mpr_set') =
                   Len(MprBeforeGreedy(neighbor_table, two_hop_table).mpr) + Len(g)]_vars


(***************************************************************************)
(* process_retry_queue on queues whose nodes are under retry.  No caller   *)
(* in the sources sets retry_count above 0, so the nodes' retry fields are *)
(* drawn from bounded sets in the initial state.                           *)
(***************************************************************************)
MaxRetryNodes == 2
RetryCounts == 0..(MAX_RETRY_ATTEMPTS + 1)
RetryDeadlines == {RETRY_BASE_INTERVAL, 60 + 1 + RETRY_BASE_INTERVAL}

RetryNode(r, n, p) ==
    [msg_type |-> MSG_TC, timestamp |-> 0, next_retry_time |-> n,
     retry_count |-> r, destination_id |-> TcSender, message_ptr |-> p,
     next |-> 0]

\* the queues holding 1..MaxRetryNodes nodes, linked as the push does
RECURSIVE RetryQueuesOfLen(_)
RetryQueuesOfLen(k) ==
    IF k = 0 THEN {init_control_queue}
    ELSE {append_node(q, k, RetryNode(r, n, k)) :
             q \in RetryQueuesOfLen(k - 1), r \in RetryCounts,
             n \in RetryDeadlines}
RetryQueues == UNION {RetryQueuesOfLen(k) : k \in 1..MaxRetryNodes}

\* the initial state with the given linked-list queue and legacy link table
InitWith(q, legacy) ==
    /\ now = 0
    /\ neighbor_table = <<>>
    /\ two_hop_table = <<>>
    /\ mpr_set = <<>>
    /\ neighbor_slots = <<>>
    /\ duplicate_table = <<>>
    /\ global_topology = <<>>
    /\ tc_topology = legacy
    /\ routing_table = <<>>
    /\ global_ctrl_queue = <<>>
    /\ ctrl_queue = <<>>
    /\ hello_msg_static = NoHello
    /\ message_seq_num = 0
    /\ ansn_counter = 0
    /\ tc_msg = NoTc
    /\ loop_started = FALSE
    /\ last_hello_time = 0
    /\ last_tc_time = 0
    /\ last_timeout_check = 0
    /\ last_global_cleanup = 0
    /\ topology_changed = FALSE
    /\ control_queue = q
    /\ rrc_to_olsr_queue = <<>>
    /\ olsr_to_rrc_queue = <<>>
    /\ last = [op |-> "init"]
    /\ hello_listed = [n \in Others \cup {ExtraNode} |-> "none"]
    /\ ansn_seen = [p \in Nodes \X Nodes |-> -1]
    /\ ansn_max_from = [n \in Nodes |-> -1]

InitRetry == \E q \in RetryQueues : InitWith(q, <<>>)

NextRetry ==
    \/ \E t \in QueueTimes : Sleep(t)
    \/ ProcessRetryQueue
    \/ CleanupExpiredMessages

SpecRetry == InitRetry /\ [][NextRetry]_vars

(***************************************************************************)
(* C33.  For a due message with retry_count = r > 0, process_retry sets    *)
(* next_retry_at = now + min(MAX_RETRY_INTERVAL, RETRY_BASE_INTERVAL *     *)
(* 2^r) and advances retry_count by one; a message is dropped by           *)
(* process_retry only once its retry_count is greater than                 *)
(* MAX_RETRY_ATTEMPTS (3).                                                 *)
(***************************************************************************)
RetryDue(node) == node.retry_count > 0 /\ now >= node.next_retry_time

Backoff(r) ==
    IF RETRY_BASE_INTERVAL * (2 ^ r) > MAX_RETRY_INTERVAL
    THEN MAX_RETRY_INTERVAL ELSE RETRY_BASE_INTERVAL * (2 ^ r)

C33_BackoffBelowMaxAttempts ==
    [][last'.op = "process_retry_queue" =>
         \A a \in DOMAIN control_queue.mem :
            /\ (/\ RetryDue(control_queue.mem[a])
                /\ control_queue.mem[a].retry_count < MAX_RETRY_ATTEMPTS)
               => /\ a \in DOMAIN control_queue'.mem
                  /\ control_queue'.mem[a].retry_count =
                        control_queue.mem[a].retry_count + 1
                  /\ control_queue'.mem[a].next_retry_time =
                        now + Backoff(control_queue.mem[a].retry_count)
            /\ a \notin DOMAIN control_queue'.mem
               => /\ RetryDue(control_queue.mem[a])
                  /\ control_queue.mem[a].retry_count >= MAX_RETRY_ATTEMPTS]_vars


(***************************************************************************)
(* dijkstra_shortest_path on link lists that name about MAX_NODES node     *)
(* ids.  The lists are drawn in the initial state as legacy TC links       *)
(* (tc_topology holds MAX_NODES * MAX_NODES links): a chain that starts at *)
(* this node, then links between pairs of further nodes.                   *)
(***************************************************************************)
MaxChain == 3
MaxPairs == 26
FarBase == 100

LegacyLink(from_id, to_id) ==
    [from_id |-> from_id, to_id |-> to_id, cost |-> 1,
     validity |-> TC_VALIDITY_TIME]

ChainLinks(k) ==
    [j \in 1..k |-> LegacyLink(IF j = 1 THEN node_id ELSE FarBase + j - 1,
                               FarBase + j)]

PairLinks(p) ==
    [j \in 1..p |-> LegacyLink(2 * FarBase + 2 * j - 1, 2 * FarBase + 2 * j)]

DijkstraInputs ==
    {ChainLinks(k) \o PairLinks(p) : k \in 0..MaxChain, p \in 0..MaxPairs}

InitDijkstra == \E l \in DijkstraInputs : InitWith(init_control_queue, l)

NextDijkstra ==
    \/ Tick(TC_VALIDITY_TIME)
    \/ UpdateRoutingTable

SpecDijkstra == InitDijkstra /\ [][NextDijkstra]_vars

(***************************************************************************)
(* C34.  For any topology link list, dijkstra_shortest_path enumerates at  *)
(* most MAX_NODES distinct node ids and never reads or writes a node,      *)
(* distance or parent slot at index >= MAX_NODES.                          *)
(***************************************************************************)
C34_DijkstraWithinMaxNodes ==
    [][last'.op = "update_routing_table" =>
          Len(DijkstraNodesNow) <= MAX_NODES]_vars


(***************************************************************************)
(* TCs of one originator for one selector, with fresh and stale ansn,      *)
(* received at different times.                                            *)
(***************************************************************************)
StaleStep == 5
StaleTimes == {StaleStep, TC_VALIDITY_TIME, TC_VALIDITY_TIME + StaleStep}

StaleTcInputs ==
    {[originator |-> TcOriginator, seq_num |-> q, ttl |-> 2, hop_count |-> 1,
      body |-> [null |-> FALSE, ansn |-> a, selectors |-> <<MaxNode>>]] :
        q \in 1..MaxTcSeq, a \in 1..MaxAnsn}

NextStale ==
    \/ \E t \in StaleTimes : Sleep(t)
    \/ \E m \in StaleTcInputs : ProcessTC(TcSender, m)
    \/ UpdateRoutingTable

SpecStale == Init /\ [][NextStale]_vars

\* every link the TC advertises is stored with a higher ansn
StaleTc(m) ==
    /\ ~is_duplicate_message(duplicate_table, m.originator, m.seq_num)
    /\ \A k \in 1..Len(m.body.selectors) :
          \E i \in 1..Len(global_topology) :
             /\ global_topology[i].from_node = m.originator
             /\ global_topology[i].to_node = m.body.selectors[k]
             /\ global_topology[i].validity_time > now
             /\ m.body.ansn < global_topology[i].ansn

\* the links build_topology_graph hands to Dijkstra at time t
GraphLinks(nt, topo, legacy, t) ==
    {<<l.from_id, l.to_id, l.validity>> :
        l \in {build_topology_graph(nt, topo, legacy, t).links[i] :
                  i \in 1..Len(build_topology_graph(nt, topo, legacy, t).links)}}

(***************************************************************************)
(* C35.  A TC whose ansn is lower than the ansn stored for an existing     *)
(* (from, to) link does not change or extend that link for routing: the    *)
(* links fed to Dijkstra and their expiry times, now and at any later      *)
(* time, are the same as if the stale TC had not been received.            *)
(***************************************************************************)
C35_StaleTcLeavesRoutingGraph ==
    [][\A m \in StaleTcInputs :
          (/\ last'.op = "process_tc"
           /\ last'.originator = m.originator
           /\ last'.seq_num = m.seq_num
           /\ StaleTc(m)
           /\ ProcessTC(TcSender, m)) =>
             \A t \in {now} \cup {u \in StaleTimes : u > now} :
                GraphLinks(neighbor_table', global_topology', tc_topology', t)
                  = GraphLinks(neighbor_table, global_topology, tc_topology, t)]_vars


(***************************************************************************)
(* The running protocol loop together with the reception of TCs that this  *)
(* node forwards.  The loop of init_olsr never returns, so an iteration    *)
(* that is possible is eventually taken: weak fairness of LoopIteration.   *)
(***************************************************************************)
ForwardTcInputs == {TcInput(q) : q \in 1..2}

NextForward ==
    \/ InitOlsr
    \/ LoopIteration
    \/ loop_started /\ Sleep(HELLO_INTERVAL)
    \/ \E hello \in TcHelloInputs : loop_started /\ ReceiveHello(TcSender, hello)
    \/ \E m \in ForwardTcInputs : loop_started /\ ProcessTC(TcSender, m)

SpecForward == Init /\ [][NextForward]_vars
SpecForwardFair == SpecForward /\ WF_vars(LoopIteration)

\* the queue entries forward_tc_message can make of the TCs received
ForwardEntries ==
    {forward_tc_message(<<>>, TcMessage(m.originator, m.seq_num, m.ttl,
                                        m.hop_count, m.body), t)[1] :
        m \in {x \in ForwardTcInputs : x.ttl > 1}, t \in {0, HELLO_INTERVAL}}

Queued(queue, e) == \E i \in 1..Len(queue) : queue[i] = e

\* the drain step of a loop iteration pops e and hands it to the transport
DrainedByLoop(e) == last.op = "loop_iteration" /\ last.out_msg = <<e>>

(***************************************************************************)
(* C36.  Every TC that process_tc_message enqueues for forwarding is       *)
(* eventually handed to the transport by the drain step of the running     *)
(* protocol loop.                                                          *)
(***************************************************************************)
C36_ForwardedTcEventuallyDrained ==
    \A e \in ForwardEntries :
        [](Queued(global_ctrl_queue, e) => <>DrainedByLoop(e))


(***************************************************************************)
(* HELLOs that carry the sender's own TDMA slot and a two-hop slot         *)
(* advertisement about the other peer.                                     *)
(***************************************************************************)
AdvertSlot == 9

SlotHelloInputs(sender) ==
    {[hello_interval |-> HELLO_INTERVAL, willingness |-> WILL_DEFAULT,
      reserved_slot |-> s, neighbors |-> a, two_hop_neighbors |-> f] :
        s \in {-1, sender},
        a \in {<<>>, <<[neighbor_id |-> node_id, link_code |-> SYM_LINK]>>},
        f \in {<<>>} \cup
              UNION {{<<[two_hop_id |-> n, via_neighbor_id |-> 0,
                         reserved_slot |-> x]>> : x \in {-1, n, AdvertSlot}} :
                        n \in HelloSenders \ {sender}}}

NextSlots ==
    \/ Tick(HELLO_INTERVAL)
    \/ \E sender \in HelloSenders :
          \E hello \in SlotHelloInputs(sender) : ReceiveHello(sender, hello)

SpecSlots == Init /\ [][NextSlots]_vars

SlotEntry(slots, n) ==
    {[reserved_slot |-> slots[i].reserved_slot,
      hop_distance |-> slots[i].hop_distance] :
        i \in {j \in 1..Len(slots) : slots[j].node_id = n}}

(***************************************************************************)
(* C37.  A TDMA reservation learned directly from a one-hop neighbor's own *)
(* HELLO (hop_distance 1) is not overwritten, in slot or in hop_distance,  *)
(* by a two-hop advertisement about that same node carried in a different  *)
(* sender's HELLO.                                                         *)
(***************************************************************************)
C37_DirectReservationKept ==
    [][\A sender \in HelloSenders : \A hello \in SlotHelloInputs(sender) :
          ReceiveHello(sender, hello) =>
             \A i \in 1..Len(neighbor_slots) :
                (/\ neighbor_slots[i].hop_distance = 1
                 /\ neighbor_slots[i].node_id # sender
                 /\ FindNeighbor(neighbor_table, neighbor_slots[i].node_id) # 0)
                => SlotEntry(neighbor_slots', neighbor_slots[i].node_id)
                     = SlotEntry(neighbor_slots, neighbor_slots[i].node_id)]_vars


(***************************************************************************)
(* The MPR module with every peer as a possible neighbor, so that the      *)
(* neighbor table fills up.                                                *)
(***************************************************************************)
NextMprFull ==
    \/ \E id \in Others, w \in {WILL_LOW, WILL_ALWAYS} :
           AddNeighbor(id, SYM_LINK, w)
    \/ \E x \in Others, n \in Others : x # n /\ AddTwoHopNeighbor(x, n)
    \/ CalculateMprSet

SpecMprFull == Init /\ [][NextMprFull]_vars

(***************************************************************************)
(* C38.  calculate_mpr_set() terminates for every neighbor table and       *)
(* TwoHop set within capacity: its greedy loop selects at most             *)
(* neighbor_count times, and MprSet never holds more than MAX_NEIGHBORS    *)
(* ids nor the same id twice.                                              *)
(***************************************************************************)
C38_MprSetBoundedAndDistinct ==
    [][last'.op = "calculate_mpr_set" =>
          /\ Len(two_hop_table) > 0 =>
                Len(GreedyGains(MprBeforeGreedy(neighbor_table, two_hop_table),
                                two_hop_table)) <= Len(neighbor_table)
          /\ Len(mpr_set') <= MaxNeighbors
          /\ \A i, j \in 1..Len(mpr_set') : i # j => mpr_set'[i] # mpr_set'[j]]_vars

\* a full neighbor table whose members were all selected, two of them by
\* the greedy loop
C38_Witness ==
    /\ last.op = "calculate_mpr_set"
    /\ Len(neighbor_table) = MaxNeighbors
    /\ Len(mpr_set) = MaxNeighbors
    /\ Len(two_hop_table) = MaxTwoHop
    /\ Len(GreedyGains(MprBeforeGreedy(neighbor_table, two_hop_table),
                       two_hop_table)) >= 2


(***************************************************************************)
(* The OLSR layer thread (src/src/rrc_olsr_interface.c).  The thread sets  *)
(* node_id and calls init_olsr(); its request loop, the only caller of     *)
(* process_rrc_route_request, comes after that call.  init_olsr is the     *)
(* while(1) loop without break or return that InitOlsr and LoopIteration   *)
(* model, so the thread's steps are these two.  The RRC layer enqueues     *)
(* route requests on rrc_to_olsr_queue at any time.                        *)
(***************************************************************************)
MaxRequests == 2

\* the RRC layer enqueues MSG_OLSR_ROUTE_REQUEST for destination_node
RrcRouteRequest(destination_node) ==
    /\ Len(rrc_to_olsr_queue) < MaxRequests
    /\ rrc_to_olsr_queue' =
          Append(rrc_to_olsr_queue,
                 [type |-> "MSG_OLSR_ROUTE_REQUEST",
                  destination_node |-> destination_node,
                  request_id |-> Len(rrc_to_olsr_queue) + 1])
    /\ last' = [op |-> "rrc_route_request"]
    /\ UNCHANGED <<now, helloVars, tcVars, sendVars, timerVars, control_queue,
                   olsr_to_rrc_queue, hello_listed, ansn_seen, ansn_max_from>>

NextRrc ==
    \/ InitOlsr
    \/ LoopIteration
    \/ \E t \in LoopTimes : loop_started /\ Sleep(t)
    \/ \E hello \in RouteHelloInputs(TcSender) :
           loop_started /\ ReceiveHello(TcSender, hello)
    \/ \E d \in Others : RrcRouteRequest(d)

SpecRrc == Init /\ [][NextRrc]_vars

\* the thread is started and runs for ever
SpecRrcFair == SpecRrc /\ WF_vars(InitOlsr) /\ WF_vars(LoopIteration)

Requested(id) ==
    \E i \in 1..Len(rrc_to_olsr_queue) : rrc_to_olsr_queue[i].request_id = id

Responses(id) ==
    {i \in 1..Len(olsr_to_rrc_queue) : olsr_to_rrc_queue[i].request_id = id}

(***************************************************************************)
(* C39.  Every route request delivered by the RRC layer to the OLSR layer  *)
(* thread eventually receives exactly one route response.                  *)
(***************************************************************************)
C39_RouteRequestAnswered ==
    \A id \in 1..MaxRequests :
        [](Requested(id) => <>(Cardinality(Responses(id)) = 1))


(***************************************************************************)
(* Successive TCs of one originator whose ansn counter passes the end of   *)
(* its 16 bits: generate_tc_message numbers them ++ansn_counter on a       *)
(* uint16_t, i.e. 65534, 65535, 0, 1.                                      *)
(***************************************************************************)
WrapBase == 65533
MaxWrapSeq == 4

WrapTcInput(q) ==
    [originator |-> TcOriginator, seq_num |-> q, ttl |-> 2, hop_count |-> 1,
     body |-> [null |-> FALSE, ansn |-> (WrapBase + q) % Uint16,
               selectors |-> <<MaxNode>>]]

WrapTcInputs == {WrapTcInput(q) : q \in 1..MaxWrapSeq}

NextWrap ==
    \/ \E t \in StaleTimes : Sleep(t)
    \/ \E m \in WrapTcInputs : ProcessTC(TcSender, m)
    \/ CleanupTopologyLinks

SpecWrap == Init /\ [][NextWrap]_vars

\* m is the TC the originator sends right after the one whose ansn is stored
\* for its links, and those links are not expired
NextAnsnOfStored(m) ==
    /\ ~is_duplicate_message(duplicate_table, m.originator, m.seq_num)
    /\ \A k \in 1..Len(m.body.selectors) :
          \E i \in 1..Len(global_topology) :
             /\ global_topology[i].from_node = m.originator
             /\ global_topology[i].to_node = m.body.selectors[k]
             /\ global_topology[i].validity_time > now
             /\ (global_topology[i].ansn + 1) % Uint16 = m.body.ansn

(***************************************************************************)
(* C40.  ANSN freshness is preserved across 16-bit wraparound: the TC an   *)
(* originator sends next after the one stored, also when its counter       *)
(* wrapped from 65535 to 0 in between, updates the stored topology links   *)
(* of that originator (their ansn and their validity).                     *)
(***************************************************************************)
C40_NextAnsnUpdatesAcrossWrap ==
    [][\A m \in WrapTcInputs :
          (/\ last'.op = "process_tc"
           /\ last'.originator = m.originator
           /\ last'.seq_num = m.seq_num
           /\ NextAnsnOfStored(m)
           /\ ProcessTC(TcSender, m)) =>
             \A k \in 1..Len(m.body.selectors) :
                \E i \in 1..Len(global_topology') :
                   /\ global_topology'[i].from_node = m.originator
                   /\ global_topology'[i].to_node = m.body.selectors[k]
                   /\ global_topology'[i].ansn = m.body.ansn
                   /\ global_topology'[i].validity_time =
                         now + TC_VALIDITY_TIME]_vars

\* the same statement away from the wrap
C40_NextAnsnUpdatesWithoutWrap ==
    [][\A m \in WrapTcInputs :
          (/\ last'.op = "process_tc"
           /\ last'.originator = m.originator
           /\ last'.seq_num = m.seq_num
           /\ NextAnsnOfStored(m)
           /\ m.body.ansn # 0
           /\ ProcessTC(TcSender, m)) =>
             \A k \in 1..Len(m.body.selectors) :
                \E i \in 1..Len(global_topology') :
                   /\ global_topology'[i].from_node = m.originator
                   /\ global_topology'[i].to_node = m.body.selectors[k]
                   /\ global_topology'[i].ansn = m.body.ansn
                   /\ global_topology'[i].validity_time =
                         now + TC_VALIDITY_TIME]_vars


====
